---- MODULE Spec2Model ----
(***************************************************************************)
(* A model of the client-side reading engine of the essay archive: the     *)
(* footnote engine (definition parsing, citation discovery, the single     *)
(* popover and its dismissal) over an explicit DOM tree.                    *)
(*                                                                         *)
(* Text is a sequence of one-character strings, so that the regular        *)
(* expressions of the source are computed character by character.  A DOM   *)
(* node is a record; an element's children are its "kids".                 *)
(***************************************************************************)
EXTENDS Integers, Sequences, FiniteSets, TLC

VARIABLES
    dom0,              \* the prose container as rendered, before initFootnotes
    prose,             \* document.querySelector(".prose-pg"): the live tree
    footnotes,         \* the Definition Map built by parseFootnotes
    pc,                \* position inside initFootnotes
    handlerInstalled,  \* the click listener of the prose container
    innerWidth,        \* window.innerWidth
    activeTooltip,     \* module variable activeTooltip (an element or Null)
    activeSheet,       \* module variable activeSheet
    backdrop,          \* module variable backdrop
    body,              \* the popover elements appended to document.body
    docClick,          \* document has the click listener onDocClick
    docKeydown,        \* document has the keydown listener onEsc
    attachTimers,      \* pending setTimeout(.., 0) callbacks of showTooltip
    removeTimers,      \* elements with a pending setTimeout(remove, 300)
    transitionEnd,     \* elements with a {once} transitionend listener
    frames,            \* pending requestAnimationFrame callbacks
    touch,             \* startY/currentY of each sheet's touch closure
    style,             \* the transform of each sheet, the opacity of each backdrop
    opens,             \* number of popovers created so far
    last,              \* the event delivered last (history)
    place,             \* the measurements and the position of a tooltip
    store,             \* localStorage["pg-reading-history"]
    now,               \* the clock read by new Date()
    tracker,           \* window.scrollY, the scrollable height, the ticking flag
    prefs,             \* localStorage["pg-reader-settings"]
    root,              \* document.documentElement: data-theme and the style variables
    annStore,          \* localStorage["pg-annotations"]
    uuids,             \* the number of identifiers crypto.randomUUID() has returned
    tabs               \* the store operations in progress in the tabs of the origin

domVars == <<dom0, prose, footnotes, pc, handlerInstalled>>
popVars == <<innerWidth, activeTooltip, activeSheet, backdrop, body, docClick,
             docKeydown, attachTimers, removeTimers, transitionEnd, frames,
             touch, style, opens, last>>
prefVars == <<prefs, root>>
annVars == <<annStore, uuids>>
extVars == <<place, store, now, tracker, prefVars, annVars, tabs>>
vars == <<domVars, popVars, extVars>>

(***************************************************************************)
(* Bounds of the model.                                                    *)
(***************************************************************************)
MaxAtoms == 4
MaxNoteAtoms == 4
MaxOpens == 2

(***************************************************************************)
(* Characters and strings.                                                 *)
(***************************************************************************)
Digits == {"0", "1", "2", "3", "4", "5", "6", "7", "8", "9"}
WhiteSpace == {" ", "\t", "\n"}

Str1 == <<"[", "1", "]">>
Str2 == <<"[", "2", "]">>

RECURSIVE ConcatAll(_)
ConcatAll(ss) == IF ss = <<>> THEN <<>> ELSE Head(ss) \o ConcatAll(Tail(ss))

StartsWith(s, p) == Len(s) >= Len(p) /\ SubSeq(s, 1, Len(p)) = p

\* String.prototype.trim
RECURSIVE TrimLeft(_)
TrimLeft(s) == IF s # <<>> /\ Head(s) \in WhiteSpace THEN TrimLeft(Tail(s)) ELSE s
RECURSIVE TrimRight(_)
TrimRight(s) ==
    IF s # <<>> /\ s[Len(s)] \in WhiteSpace THEN TrimRight(SubSeq(s, 1, Len(s) - 1)) ELSE s
Trim(s) == TrimRight(TrimLeft(s))

(***************************************************************************)
(* The regular expression /\[(\d+)\]/.                                     *)
(***************************************************************************)
NoMatch == [index |-> 0, num |-> <<>>, len |-> 0]

\* the length of the run of digits of s that starts at position i
RECURSIVE DigitRun(_, _)
DigitRun(s, i) == IF i <= Len(s) /\ s[i] \in Digits THEN 1 + DigitRun(s, i + 1) ELSE 0

\* /\[(\d+)\]/ matches s at position i
MatchAt(s, i) ==
    /\ i <= Len(s)
    /\ s[i] = "["
    /\ LET n == DigitRun(s, i + 1)
       IN  n >= 1 /\ i + n + 1 <= Len(s) /\ s[i + n + 1] = "]"

\* regex.exec(text) with regex.lastIndex = from - 1: the leftmost match at or
\* after position from (positions are 1-based here), or NoMatch
RECURSIVE RegexExec(_, _)
RegexExec(s, from) ==
    IF from > Len(s) THEN NoMatch
    ELSE IF MatchAt(s, from)
         THEN LET n == DigitRun(s, from + 1)
              IN  [index |-> from, num |-> SubSeq(s, from + 1, from + n), len |-> n + 2]
         ELSE RegexExec(s, from + 1)

RegexTest(s) == RegexExec(s, 1) # NoMatch

\* html.split(/\[(\d+)\]/): <<before, num1, segment1, num2, segment2, ...>>
RECURSIVE SplitFrom(_, _)
SplitFrom(s, from) ==
    LET m == RegexExec(s, from)
    IN  IF m = NoMatch THEN <<SubSeq(s, from, Len(s))>>
        ELSE <<SubSeq(s, from, m.index - 1), m.num>> \o SplitFrom(s, m.index + m.len)

SplitMarkers(s) == SplitFrom(s, 1)

(***************************************************************************)
(* DOM nodes.                                                              *)
(***************************************************************************)
Node(tag, text, href, cls, hasFn, fn, label, kids) ==
    [tag |-> tag, text |-> text, href |-> href, cls |-> cls, hasFn |-> hasFn,
     fn |-> fn, label |-> label, kids |-> kids]

TextNode(s) == Node("#text", s, <<>>, "", FALSE, <<>>, <<>>, <<>>)
Elem(tag, kids) == Node(tag, <<>>, <<>>, "", FALSE, <<>>, <<>>, kids)
Anchor(href, s) == Node("a", <<>>, href, "", FALSE, <<>>, <<>>, <<TextNode(s)>>)
Strong(s) == Elem("strong", <<TextNode(s)>>)
DivClass(cls, kids) == Node("div", <<>>, <<>>, cls, FALSE, <<>>, <<>>, kids)
NoProse == Node("#none", <<>>, <<>>, "", FALSE, <<>>, <<>>, <<>>)

IsText(n) == n.tag = "#text"
IsNotesDiv(n) == n.tag = "div" /\ n.cls = "text-xs"     \* matches "div.text-xs"
IsFnLink(n) == n.tag = "a" /\ StartsWith(n.href, <<"#", "f">>)  \* 'a[href^="#f"]'

\* node.textContent
RECURSIVE TextContent(_)
TextContent(n) ==
    IF IsText(n) THEN n.text
    ELSE ConcatAll([i \in 1..Len(n.kids) |-> TextContent(n.kids[i])])

\* the descendants of n in document order (n itself excluded)
RECURSIVE Descendants(_)
Descendants(n) ==
    ConcatAll([i \in 1..Len(n.kids) |-> <<n.kids[i]>> \o Descendants(n.kids[i])])

\* element.innerHTML: text as its characters (the alphabet of the model has no
\* character that is escaped), every tag as one token that holds no bracket
RECURSIVE InnerHTML(_)
InnerHTML(n) ==
    ConcatAll([i \in 1..Len(n.kids) |->
        IF IsText(n.kids[i]) THEN n.kids[i].text
        ELSE <<"<" \o n.kids[i].tag \o ">">> \o InnerHTML(n.kids[i])
                 \o <<"</" \o n.kids[i].tag \o ">">>])

Tags == {"a", "strong", "div", "p", "button"}
TagTokens == {"<" \o t \o ">" : t \in Tags} \cup {"</" \o t \o ">" : t \in Tags}

\* temp.innerHTML = rawHtml; temp.textContent: the parser drops the tags, also
\* the unbalanced ones a split leaves, and keeps the text
StripTags(raw) == SelectSeq(raw, LAMBDA c : c \notin TagTokens)

(***************************************************************************)
(* parseFootnotes.                                                         *)
(***************************************************************************)
EmptyMap == <<>>
MapSet(m, k, v) == [x \in DOMAIN m \cup {k} |-> IF x = k THEN v ELSE m[x]]

StrNotes == <<"N", "o", "t", "e", "s">>
StrThanks == <<"T", "h", "a", "n", "k", "s">>

\* prose.querySelectorAll("div.text-xs")
NotesSections(p) == SelectSeq(Descendants(p), IsNotesDiv)

\* section.querySelector("strong") exists and /^Notes/ matches its text
HasNotesHeading(section) ==
    LET strongs == SelectSeq(Descendants(section), LAMBDA n : n.tag = "strong")
    IN  strongs # <<>> /\ StartsWith(TextContent(strongs[1]), StrNotes)

\* a variant of DefsFromParts that keeps the first definition of a number
RECURSIVE DefsFromParts_FirstWins(_, _, _)
DefsFromParts_FirstWins(parts, j, map) ==
    IF j > Len(parts) THEN map
    ELSE LET num == parts[j]
             rawHtml == IF j + 1 <= Len(parts) THEN parts[j + 1] ELSE <<>>
             text == Trim(StripTags(rawHtml))
         IN  DefsFromParts_FirstWins(parts, j + 2,
                IF text # <<>> /\ num \notin DOMAIN map THEN MapSet(map, num, text) ELSE map)

\* for (let i = 1; i < parts.length; i += 2): j is i + 1, sequences start at 1
RECURSIVE DefsFromParts(_, _, _)
DefsFromParts(parts, j, map) ==
    IF j > Len(parts) THEN map
    ELSE LET num == parts[j]
             rawHtml == IF j + 1 <= Len(parts) THEN parts[j + 1] ELSE <<>>
             text == Trim(StripTags(rawHtml))
         IN  DefsFromParts(parts, j + 2,
                           IF text # <<>> THEN MapSet(map, num, text) ELSE map)

RECURSIVE ParseSections(_, _)
ParseSections(sections, map) ==
    IF sections = <<>> THEN map
    ELSE ParseSections(Tail(sections),
            IF HasNotesHeading(Head(sections))
            THEN DefsFromParts(SplitMarkers(InnerHTML(Head(sections))), 2, map)
            ELSE map)

parseFootnotes(p) == ParseSections(NotesSections(p), EmptyMap)

(***************************************************************************)
(* The interactive control both passes create.                             *)
(***************************************************************************)
StrFootnote == <<"F", "o", "o", "t", "n", "o", "t", "e", " ">>

Button(num) ==
    Node("button", <<>>, <<>>, "", TRUE, num, StrFootnote \o num,
         <<TextNode(<<"[">> \o num \o <<"]">>)>>)

(***************************************************************************)
(* wrapPlainTextNotes.                                                     *)
(***************************************************************************)
\* variants of AcceptNode without one of its two ancestor checks
AcceptNode_IgnoringControls(node, inNotes, inFn) ==
    IF inNotes THEN FALSE ELSE RegexTest(node.text)

AcceptNode_IgnoringNotes(node, inNotes, inFn) ==
    IF inFn THEN FALSE ELSE RegexTest(node.text)

\* acceptNode of the tree walker: inNotes is parent.closest("div.text-xs"),
\* inFn is parent.closest("[data-fn]")
AcceptNode(node, inNotes, inFn) ==
    IF inNotes THEN FALSE
    ELSE IF inFn THEN FALSE
    ELSE RegexTest(node.text)

\* the while loop over regex.exec: lastIndex and frag are the variables of the
\* source (lastIndex counts characters, from 0); from is regex.lastIndex + 1
RECURSIVE PlainLoop(_, _, _, _, _)
PlainLoop(text, fn, from, lastIndex, frag) ==
    LET m == RegexExec(text, from)
    IN  IF m = NoMatch THEN [frag |-> frag, lastIndex |-> lastIndex]
        ELSE IF m.num \notin DOMAIN fn
             THEN PlainLoop(text, fn, m.index + m.len, lastIndex, frag)
             ELSE PlainLoop(text, fn, m.index + m.len, m.index - 1 + m.len,
                    frag \o (IF m.index - 1 > lastIndex
                             THEN <<TextNode(SubSeq(text, lastIndex + 1, m.index - 1))>>
                             ELSE <<>>)
                         \o <<Button(m.num)>>)

\* a variant of PlainReplacement that forgets the text after the last control
PlainReplacement_NoTail(textNode, fn) ==
    LET r == PlainLoop(textNode.text, fn, 1, 0, <<>>)
    IN  IF r.lastIndex = 0 THEN <<textNode>> ELSE r.frag

\* the nodes that replace one accepted text node
PlainReplacement(textNode, fn) ==
    LET text == textNode.text
        r == PlainLoop(text, fn, 1, 0, <<>>)
    IN  IF r.lastIndex = 0 THEN <<textNode>>
        ELSE r.frag \o (IF r.lastIndex < Len(text)
                        THEN <<TextNode(SubSeq(text, r.lastIndex + 1, Len(text)))>>
                        ELSE <<>>)

\* The walker visits every text node under the root; the replacements are made
\* after the walk and each touches one collected node only, so the pass is a
\* map over the text nodes of the tree.
RECURSIVE WrapPlainKids(_, _, _, _)
WrapPlainKids(kids, fn, inNotes, inFn) ==
    ConcatAll([i \in 1..Len(kids) |->
        LET k == kids[i]
        IN  IF IsText(k)
            THEN IF AcceptNode(k, inNotes, inFn) THEN PlainReplacement(k, fn) ELSE <<k>>
            ELSE <<[k EXCEPT !.kids = WrapPlainKids(k.kids, fn, inNotes \/ IsNotesDiv(k),
                                                    inFn \/ k.hasFn)]>>])

wrapPlainTextNotes(p, fn) == [p EXCEPT !.kids = WrapPlainKids(p.kids, fn, FALSE, FALSE)]

(***************************************************************************)
(* wrapLinkedNotes.                                                        *)
(***************************************************************************)
\* a variant of StripOpen that strips the bracket only when no white space
\* follows it
StripOpen_NoWhiteSpace(s) ==
    IF s # <<>> /\ s[Len(s)] = "[" THEN SubSeq(s, 1, Len(s) - 1) ELSE s

\* text.replace(/\[\s*$/, "")
StripOpen(s) ==
    LET t == TrimRight(s)
    IN  IF t # <<>> /\ t[Len(t)] = "[" THEN SubSeq(t, 1, Len(t) - 1) ELSE s

\* text.replace(/^\s*\]/, "")
StripClose(s) ==
    LET t == TrimLeft(s)
    IN  IF t # <<>> /\ Head(t) = "]" THEN Tail(t) ELSE s

\* link.textContent?.trim()
LinkNum(link) == Trim(TextContent(link))

\* the link at position i becomes a control; bracket remnants are stripped
\* from the text nodes next to it
ReplaceLink(kids, i, num) ==
    [j \in 1..Len(kids) |->
        IF j = i THEN Button(num)
        ELSE IF j = i - 1 /\ IsText(kids[j]) THEN [kids[j] EXCEPT !.text = StripOpen(@)]
        ELSE IF j = i + 1 /\ IsText(kids[j]) THEN [kids[j] EXCEPT !.text = StripClose(@)]
        ELSE kids[j]]

\* a variant of LinkConverts that does not look the number up
LinkConverts_AnyNumber(link, fn, inFn) ==
    IsFnLink(link) /\ LinkNum(link) # <<>> /\ ~inFn

\* the guards of the loop body: the number is defined and the link is not
\* inside a control (inFn is parent.closest("[data-fn]"))
LinkConverts(link, fn, inFn) ==
    /\ IsFnLink(link)
    /\ LinkNum(link) # <<>>
    /\ LinkNum(link) \in DOMAIN fn
    /\ ~inFn

\* a variant of LinkLoop that does not enter a text-xs block
RECURSIVE LinkLoop_SkippingNotes(_, _, _, _)
LinkLoop_SkippingNotes(kids, i, fn, inFn) ==
    IF i > Len(kids) THEN kids
    ELSE LET k == kids[i]
         IN  IF IsText(k) \/ IsNotesDiv(k) THEN LinkLoop_SkippingNotes(kids, i + 1, fn, inFn)
             ELSE IF LinkConverts(k, fn, inFn)
                  THEN LinkLoop_SkippingNotes(ReplaceLink(kids, i, LinkNum(k)), i + 1, fn, inFn)
                  ELSE LinkLoop_SkippingNotes([kids EXCEPT ![i].kids =
                                    LinkLoop_SkippingNotes(k.kids, 1, fn, inFn \/ k.hasFn)],
                                i + 1, fn, inFn)

\* for (const link of links), in document order
RECURSIVE LinkLoop(_, _, _, _)
LinkLoop(kids, i, fn, inFn) ==
    IF i > Len(kids) THEN kids
    ELSE LET k == kids[i]
         IN  IF IsText(k) THEN LinkLoop(kids, i + 1, fn, inFn)
             ELSE IF LinkConverts(k, fn, inFn)
                  THEN LinkLoop(ReplaceLink(kids, i, LinkNum(k)), i + 1, fn, inFn)
                  ELSE LinkLoop([kids EXCEPT ![i].kids =
                                    LinkLoop(k.kids, 1, fn, inFn \/ k.hasFn)],
                                i + 1, fn, inFn)

wrapLinkedNotes(p, fn) == [p EXCEPT !.kids = LinkLoop(p.kids, 1, fn, FALSE)]

(***************************************************************************)
(* The rendered documents the model starts from.  A paragraph is a run of  *)
(* at most MaxAtoms atoms (a piece of text or a link); adjacent pieces of  *)
(* text are one text node, as the HTML parser leaves them.                 *)
(***************************************************************************)
HrefF1 == <<"#", "f", "1", "n">>
HrefF2 == <<"#", "f", "2", "n">>
HrefOther == <<"x", ".", "h", "t", "m", "l">>

Link1 == Anchor(HrefF1, <<"1">>)
Link2 == Anchor(HrefF2, <<" ", "2">>)
LinkOther == Anchor(HrefOther, <<"1">>)

TextToks == {<<"[">>, <<"]">>, <<" ">>, <<"x">>, Str1, Str2}
ParaAtoms == {TextNode(t) : t \in TextToks} \cup {Link1, Link2, LinkOther}
NoteAtoms == {TextNode(t) : t \in {Str1, Str2, <<" ">>, <<"x">>, <<"y">>}} \cup {Link1}

SeqsUpTo(S, n) == UNION {[1..k -> S] : k \in 0..n}

RECURSIVE MergeText(_)
MergeText(nodes) ==
    IF Len(nodes) < 2 THEN nodes
    ELSE LET rest == MergeText(Tail(nodes))
         IN  IF IsText(Head(nodes)) /\ IsText(Head(rest))
             THEN <<TextNode(Head(nodes).text \o Head(rest).text)>> \o Tail(rest)
             ELSE <<Head(nodes)>> \o rest

Para(atoms) == Elem("p", MergeText(atoms))

\* <div class="text-xs"><p><strong>heading</strong></p><p>content</p></div>
NotesDiv(heading, atoms) ==
    DivClass("text-xs", <<Elem("p", <<Strong(heading)>>), Para(atoms)>>)

\* a text-xs block without any <strong>
PlainSmallDiv(atoms) == DivClass("text-xs", <<Para(atoms)>>)

ProseOf(para, blocks) == DivClass("prose-pg", <<para>> \o blocks)

T(s) == TextNode(s)

\* the trailing blocks tried with every paragraph
NotesMenu ==
    { <<>>,
      <<NotesDiv(StrNotes, <<T(Str1 \o <<" ", "x">>)>>)>>,
      <<NotesDiv(StrNotes, <<T(Str1 \o <<" ", "x">> \o Str2 \o <<"y">>)>>)>>,
      <<NotesDiv(StrThanks, <<T(Str1 \o <<" ", "x">>)>>)>> }

\* the paragraph tried with every notes block
FixedPara == Para(<<T(<<"x">> \o Str2 \o Str1 \o <<"[">>), Link1, T(<<"]">>), Link2>>)

\* dom0 is one of the documents of the model
IsDoc(d) ==
    \/ \E a \in SeqsUpTo(ParaAtoms, MaxAtoms), n \in NotesMenu : d = ProseOf(Para(a), n)
    \/ \E h \in {StrNotes, StrThanks}, a \in SeqsUpTo(NoteAtoms, MaxNoteAtoms) :
          d = ProseOf(FixedPara, <<NotesDiv(h, a)>>)
    \/ d = ProseOf(FixedPara, <<PlainSmallDiv(<<T(Str1 \o <<"x">>)>>)>>)
    \/ d = ProseOf(FixedPara, <<NotesDiv(StrNotes, <<T(Str1 \o <<"x">>)>>),
                                NotesDiv(StrNotes, <<T(Str1 \o <<"y">> \o Str2 \o <<"x">>)>>)>>)
    \/ d = NoProse

(***************************************************************************)
(* The popover engine's state before any activation.                       *)
(***************************************************************************)
\* a popover element: its kind, the number of the activation that made it, and
\* what it shows (a sheet is labelled "Note N"; a tooltip holds the text only)
Element(kind, id, num, text) == [kind |-> kind, id |-> id, num |-> num, text |-> text]
Null == Element("null", 0, <<>>, <<>>)

\* an event as the history variable records it
Event(ev, el, key) == [ev |-> ev, el |-> el, key |-> key]
NoEvent == Event("none", Null, "")

\* localStorage.getItem returns null
Missing == [kind |-> "missing"]

\* the root element before any setting is applied
NoRoot == [dataTheme |-> <<>>, style |-> <<>>]

\* no page is tracked
\* (maxY: the largest offset a scroll frame has processed, kept for the claims)
NoTracker == [ticking |-> FALSE, scrollY |-> 0, denom |-> 0, maxY |-> 0]

\* no store operation is in progress in any tab
(* initial: the item before the calls; ns: the storage key they use; call: *)
(* per tab its call; writes: the tabs in the order of their writes         *)
Tabs == {1, 2}
Idle == [pc |-> "idle"]
NoTabs == [initial |-> Missing, ns |-> "none", call |-> [t \in Tabs |-> Idle], writes |-> <<>>]

\* no tooltip has been measured
NoPlace == [state |-> "none"]

PopInit ==
    /\ activeTooltip = Null
    /\ activeSheet = Null
    /\ backdrop = Null
    /\ body = {}
    /\ docClick = FALSE
    /\ docKeydown = FALSE
    /\ attachTimers = 0
    /\ removeTimers = {}
    /\ transitionEnd = {}
    /\ frames = {}
    /\ touch = EmptyMap
    /\ style = EmptyMap
    /\ opens = 0
    /\ last = NoEvent

\* the state of the rest of the page
ExtInit ==
    /\ place = NoPlace /\ store = Missing /\ now = 0 /\ tracker = NoTracker
    /\ prefs = Missing /\ root = NoRoot /\ annStore = Missing /\ uuids = 0
    /\ tabs = NoTabs

(***************************************************************************)
(* initFootnotes, step by step.                                            *)
(***************************************************************************)
\* const prose = querySelector(".prose-pg"); if (!prose) return;
\* const footnotes = parseFootnotes(prose); if (footnotes.size === 0) return;
EarlyReturn_ProseOnly(p, fn) == p = NoProse

EarlyReturn(p, fn) == p = NoProse \/ DOMAIN fn = {}

ParseStep ==
    /\ pc = "start"
    /\ footnotes' = IF prose = NoProse THEN EmptyMap ELSE parseFootnotes(prose)
    /\ pc' = IF EarlyReturn(prose, footnotes') THEN "exit" ELSE "parsed"
    /\ UNCHANGED <<dom0, prose, handlerInstalled, popVars, extVars>>

LinkedStep ==
    /\ pc = "parsed"
    /\ prose' = wrapLinkedNotes(prose, footnotes)
    /\ pc' = "linked"
    /\ UNCHANGED <<dom0, footnotes, handlerInstalled, popVars, extVars>>

\* wrapPlainTextNotes(prose, footnotes); prose.addEventListener("click", ...)
PlainStep ==
    /\ pc = "linked"
    /\ prose' = wrapPlainTextNotes(prose, footnotes)
    /\ handlerInstalled' = TRUE
    /\ pc' = "ready"
    /\ UNCHANGED <<dom0, footnotes, popVars, extVars>>

\* discovery run a second time on the processed tree
Rediscover ==
    /\ pc = "ready"
    /\ prose' = wrapPlainTextNotes(wrapLinkedNotes(prose, footnotes), footnotes)
    /\ pc' = "rerun"
    /\ UNCHANGED <<dom0, footnotes, handlerInstalled, popVars, extVars>>

DomInit ==
    /\ IsDoc(dom0)
    /\ prose = dom0
    /\ footnotes = EmptyMap
    /\ pc = "start"
    /\ handlerInstalled = FALSE

InitDom == DomInit /\ PopInit /\ ExtInit /\ innerWidth = 1024

NextDom == ParseStep \/ LinkedStep \/ PlainStep \/ Rediscover

SpecDom == InitDom /\ [][NextDom]_vars

(***************************************************************************)
(* Reading a tree: the citations and the controls it holds.                *)
(***************************************************************************)
RECURSIVE SortedSeq(_)
SortedSeq(S) ==
    IF S = {} THEN <<>>
    ELSE LET m == CHOOSE x \in S : \A y \in S : x <= y
         IN  <<m>> \o SortedSeq(S \ {m})

\* the positions at which a marker [N] starts, and the number of each
MarkerPositions(s) == SortedSeq({i \in 1..Len(s) : MatchAt(s, i)})
MarkerNum(s, i) == SubSeq(s, i + 1, i + DigitRun(s, i + 1))
MarkerNums(s) ==
    LET ps == MarkerPositions(s) IN [k \in 1..Len(ps) |-> MarkerNum(s, ps[k])]

IsControl(n) == n.tag = "button" /\ n.hasFn
IsDefined(num) == num \in DOMAIN footnotes

\* a linked-style citation of a defined number
IsLinkedCitation(n) == IsFnLink(n) /\ IsDefined(Trim(TextContent(n)))

\* the numbers of the citations of defined numbers outside the notes region,
\* in document order
RECURSIVE CitationNums(_, _)
CitationNums(kids, inNotes) ==
    ConcatAll([i \in 1..Len(kids) |->
        LET k == kids[i]
        IN  IF IsText(k)
            THEN IF inNotes THEN <<>> ELSE SelectSeq(MarkerNums(k.text), IsDefined)
            ELSE IF IsControl(k) THEN <<>>
            ELSE IF IsLinkedCitation(k)
                 THEN IF inNotes THEN <<>> ELSE <<Trim(TextContent(k))>>
                 ELSE CitationNums(k.kids, inNotes \/ IsNotesDiv(k))])

\* the numbers of the controls outside the notes region, in document order
RECURSIVE ControlNums(_, _)
ControlNums(kids, inNotes) ==
    ConcatAll([i \in 1..Len(kids) |->
        LET k == kids[i]
        IN  IF IsText(k) THEN <<>>
            ELSE (IF IsControl(k) /\ ~inNotes THEN <<k.fn>> ELSE <<>>)
                 \o ControlNums(k.kids, inNotes \/ IsNotesDiv(k))])

Controls(p) == SelectSeq(Descendants(p), IsControl)

\* a control as the claim describes it: data-fn = N, aria-label "Footnote N",
\* the text [N] and nothing nested in it
WellFormedControl(c) ==
    /\ c.label = StrFootnote \o c.fn
    /\ c.kids = <<TextNode(<<"[">> \o c.fn \o <<"]">>)>>

\* the undefined markers of the text nodes outside controls, in document order
RECURSIVE UndefinedMarkers(_)
UndefinedMarkers(kids) ==
    ConcatAll([i \in 1..Len(kids) |->
        LET k == kids[i]
        IN  IF IsText(k) THEN SelectSeq(MarkerNums(k.text), LAMBDA n : ~IsDefined(n))
            ELSE IF IsControl(k) THEN <<>>
            ELSE UndefinedMarkers(k.kids)])

EndsWithOpen(n) == IsText(n) /\ n.text # <<>> /\ n.text[Len(n.text)] = "["
BeginsWithClose(n) == IsText(n) /\ n.text # <<>> /\ Head(n.text) = "]"

\* the links whose number is not defined, each with its surrounding brackets
RECURSIVE UndefinedLinks(_)
UndefinedLinks(kids) ==
    ConcatAll([i \in 1..Len(kids) |->
        LET k == kids[i]
        IN  IF IsText(k) \/ IsControl(k) THEN <<>>
            ELSE IF IsFnLink(k) /\ ~IsDefined(Trim(TextContent(k)))
                 THEN <<[link |-> k,
                         open |-> i > 1 /\ EndsWithOpen(kids[i - 1]),
                         close |-> i < Len(kids) /\ BeginsWithClose(kids[i + 1])]>>
                 ELSE UndefinedLinks(k.kids)])

Discovered == pc \in {"ready", "rerun"}

(***************************************************************************)
(* Citation discovery.                                                     *)
(***************************************************************************)
HasDefinedMarker(s) == SelectSeq(MarkerNums(s), IsDefined) # <<>>

\* C3: once initFootnotes has run, the controls outside the notes region are,
\* in document order, exactly the citations of defined numbers (linked or
\* plain) the rendered prose held outside the notes region: one control per
\* occurrence, with data-fn = N, aria-label "Footnote N", the text [N] and no
\* control inside a control.
C3_OneControlPerCitation ==
    Discovered =>
        /\ ControlNums(prose.kids, FALSE) = CitationNums(dom0.kids, FALSE)
        /\ \A i \in 1..Len(Controls(prose)) : WellFormedControl(Controls(prose)[i])

\* a document with a linked and a plain citation of defined numbers, processed
C3_Witness ==
    /\ pc = "ready"
    /\ \E i \in 1..Len(dom0.kids[1].kids) : IsLinkedCitation(dom0.kids[1].kids[i])
    /\ \E i \in 1..Len(dom0.kids[1].kids) :
          IsText(dom0.kids[1].kids[i]) /\ HasDefinedMarker(dom0.kids[1].kids[i].text)
    /\ Len(ControlNums(prose.kids, FALSE)) >= 2

\* every control carries a defined number; the undefined plain markers and the
\* links of undefined numbers (with the brackets around them) are those of the
\* rendered prose
UndefinedUntouched ==
    pc \in {"parsed", "linked", "ready", "rerun"} =>
        /\ \A i \in 1..Len(Controls(prose)) : IsDefined(Controls(prose)[i].fn)
        /\ UndefinedMarkers(prose.kids) = UndefinedMarkers(dom0.kids)
        /\ UndefinedLinks(prose.kids) = UndefinedLinks(dom0.kids)

\* C4: a citation of an undefined number is never converted, in either style
\* (the literal [N] stays in its text, the link stays a link between its
\* brackets), and running both passes again on the processed tree changes
\* nothing.
C4_UndefinedKeptAndIdempotent ==
    /\ []UndefinedUntouched
    /\ [][pc = "ready" /\ pc' = "rerun" => prose' = prose]_vars

\* discovery has run twice on a document that had converted citations and an
\* undefined marker and an undefined bracketed link
C4_Witness ==
    /\ pc = "rerun"
    /\ Controls(prose) # <<>>
    /\ UndefinedMarkers(dom0.kids[1].kids) # <<>>
    /\ \E i \in 1..Len(UndefinedLinks(dom0.kids)) :
          UndefinedLinks(dom0.kids)[i].open /\ UndefinedLinks(dom0.kids)[i].close

\* new is old with text nodes replaced by runs of text segments and controls
\* that spell the same text
RECURSIVE PlainRefines(_, _)
PlainRefines(old, new) ==
    IF old = <<>> THEN new = <<>>
    ELSE LET h == Head(old)
         IN  IF IsText(h)
             THEN \E k \in 1..Len(new) :
                    /\ \A j \in 1..k :
                          IsText(new[j]) \/ (IsControl(new[j]) /\ WellFormedControl(new[j]))
                    /\ ConcatAll([j \in 1..k |-> TextContent(new[j])]) = h.text
                    /\ (~HasDefinedMarker(h.text) => k = 1 /\ new[1] = h)
                    /\ PlainRefines(Tail(old), SubSeq(new, k + 1, Len(new)))
             ELSE /\ new # <<>>
                  /\ ~IsText(Head(new))
                  /\ [Head(new) EXCEPT !.kids = <<>>] = [h EXCEPT !.kids = <<>>]
                  /\ PlainRefines(h.kids, Head(new).kids)
                  /\ PlainRefines(Tail(old), Tail(new))

\* C5: the plain-text pass preserves the text verbatim: every text node is
\* replaced by text segments and controls whose texts, concatenated in order,
\* are the text of the node, and a text node without a defined marker is left
\* as it is.
C5_PlainPassKeepsText ==
    [][pc = "linked" /\ pc' = "ready" => PlainRefines(prose.kids, prose'.kids)]_vars

\* a text node mixing undefined and defined markers has been split
C5_Witness ==
    /\ pc = "ready"
    /\ \E i \in 1..Len(dom0.kids[1].kids) :
          LET k == dom0.kids[1].kids[i]
          IN  /\ IsText(k)
              /\ HasDefinedMarker(k.text)
              /\ SelectSeq(MarkerNums(k.text), LAMBDA n : ~IsDefined(n)) # <<>>
    /\ UndefinedMarkers(prose.kids) # <<>>
    /\ ControlNums(prose.kids, FALSE) # <<>>

(***************************************************************************)
(* The linked pass and the bracket remnants.                               *)
(***************************************************************************)
AllWhiteSpace(s) == \A i \in 1..Len(s) : s[i] \in WhiteSpace

\* s without one trailing "[" and the white space after it, if it ends so
WithoutOpenRemnant(s) ==
    IF \E k \in 1..Len(s) : s[k] = "[" /\ AllWhiteSpace(SubSeq(s, k + 1, Len(s)))
    THEN SubSeq(s, 1, (CHOOSE k \in 1..Len(s) :
                          s[k] = "[" /\ AllWhiteSpace(SubSeq(s, k + 1, Len(s)))) - 1)
    ELSE s

\* s without one leading "]" and the white space before it, if it begins so
WithoutCloseRemnant(s) ==
    IF \E k \in 1..Len(s) : s[k] = "]" /\ AllWhiteSpace(SubSeq(s, 1, k - 1))
    THEN SubSeq(s, 1 + (CHOOSE k \in 1..Len(s) :
                          s[k] = "]" /\ AllWhiteSpace(SubSeq(s, 1, k - 1))), Len(s))
    ELSE s

EndsWithTwoOpen(n) ==
    IsText(n) /\ Len(n.text) >= 2 /\ SubSeq(n.text, Len(n.text) - 1, Len(n.text)) = <<"[", "[">>
BeginsWithTwoClose(n) ==
    IsText(n) /\ Len(n.text) >= 2 /\ SubSeq(n.text, 1, 2) = <<"]", "]">>

\* the linked citation at position i of old has "[" right before it and "]"
\* right after it
Bracketed(old, i) ==
    /\ IsLinkedCitation(old[i])
    /\ i > 1 /\ EndsWithOpen(old[i - 1])
    /\ i < Len(old) /\ BeginsWithClose(old[i + 1])

\* the statement as the specification has it: no bracket is left next to the
\* control of a bracketed linked citation
RECURSIVE NoBracketLeft(_, _)
NoBracketLeft(old, new) ==
    /\ Len(new) = Len(old)
    /\ \A i \in 1..Len(old) :
          /\ Bracketed(old, i) =>
                IsControl(new[i]) /\ ~EndsWithOpen(new[i - 1]) /\ ~BeginsWithClose(new[i + 1])
          /\ (~IsText(old[i]) /\ ~IsLinkedCitation(old[i])) =>
                NoBracketLeft(old[i].kids, new[i].kids)

\* C6 as stated: after wrapLinkedNotes the text before the control of a
\* bracketed linked citation does not end with "[" and the text after it does
\* not begin with "]".
C6_NoBracketNextToControl ==
    [][pc = "parsed" /\ pc' = "linked" => NoBracketLeft(prose.kids, prose'.kids)]_vars

\* what the pass does to the tree: a linked citation becomes its control, a
\* text node loses one "]" remnant at its start when the node before it is a
\* converted link and one "[" remnant at its end when the node after it is,
\* and nothing else changes; so a bracket stays next to the control exactly
\* when the text had two of them
RECURSIVE OneBracketStripped(_, _)
OneBracketStripped(old, new) ==
    /\ Len(new) = Len(old)
    /\ \A i \in 1..Len(old) :
          IF IsText(old[i])
          THEN LET a == IF i > 1 /\ IsLinkedCitation(old[i - 1])
                        THEN WithoutCloseRemnant(old[i].text) ELSE old[i].text
                   b == IF i < Len(old) /\ IsLinkedCitation(old[i + 1])
                        THEN WithoutOpenRemnant(a) ELSE a
               IN  new[i] = TextNode(b)
          ELSE IF IsLinkedCitation(old[i])
               THEN /\ new[i] = Button(Trim(TextContent(old[i])))
                    /\ Bracketed(old, i) =>
                          /\ EndsWithOpen(new[i - 1]) <=> EndsWithTwoOpen(old[i - 1])
                          /\ BeginsWithClose(new[i + 1]) <=> BeginsWithTwoClose(old[i + 1])
               ELSE /\ [new[i] EXCEPT !.kids = <<>>] = [old[i] EXCEPT !.kids = <<>>]
                    /\ OneBracketStripped(old[i].kids, new[i].kids)

\* C6 (amended): for a bracketed linked citation of a defined number the pass
\* removes exactly one "[" from the end of the text before the link and
\* exactly one "]" from the start of the text after it (with the white space
\* between bracket and link) and changes no other character; the text next to
\* the control still ends with "[" (begins with "]") exactly when the original
\* had a doubled bracket there.
C6_OneBracketStripped ==
    [][pc = "parsed" /\ pc' = "linked" => OneBracketStripped(prose.kids, prose'.kids)]_vars

\* a bracketed linked citation has been converted and its brackets are gone
C6_Witness ==
    /\ pc = "linked"
    /\ \E i \in 1..Len(dom0.kids[1].kids) :
          /\ Bracketed(dom0.kids[1].kids, i)
          /\ IsControl(prose.kids[1].kids[i])
          /\ prose.kids[1].kids[i - 1].text # dom0.kids[1].kids[i - 1].text
          /\ ~EndsWithOpen(prose.kids[1].kids[i - 1])
          /\ ~BeginsWithClose(prose.kids[1].kids[i + 1])

(***************************************************************************)
(* The Definition Map.                                                     *)
(***************************************************************************)
\* the markers of one notes block, in order, each with the plain text of the
\* segment that follows it up to the next marker or the end of the block
BlockMarkers(block) ==
    LET html == InnerHTML(block)
        ps == MarkerPositions(html)
    IN  [k \in 1..Len(ps) |->
            [num |-> MarkerNum(html, ps[k]),
             body |-> Trim(StripTags(SubSeq(html, ps[k] + DigitRun(html, ps[k] + 1) + 2,
                                           IF k < Len(ps) THEN ps[k + 1] - 1 ELSE Len(html))))]]

\* the markers of all the notes blocks (a text-xs block headed "Notes...")
NotesMarkers(p) ==
    LET blocks == SelectSeq(NotesSections(p), HasNotesHeading)
    IN  ConcatAll([b \in 1..Len(blocks) |-> BlockMarkers(blocks[b])])

\* every entry of the map is the non-empty segment of a marker of its number
EntriesAreSegments(ms) ==
    \A n \in DOMAIN footnotes :
        \E k \in 1..Len(ms) : ms[k].num = n /\ ms[k].body = footnotes[n] /\ ms[k].body # <<>>

Parsed == pc # "start" /\ dom0 # NoProse

\* C7 as stated: the segment of every marker [N], when not empty, is the
\* body stored for N.
C7_EverySegmentStored ==
    Parsed =>
        LET ms == NotesMarkers(dom0)
        IN  /\ EntriesAreSegments(ms)
            /\ \A k \in 1..Len(ms) :
                  ms[k].body # <<>> => IsDefined(ms[k].num) /\ footnotes[ms[k].num] = ms[k].body

\* C7 (amended): parseFootnotes splits each notes block on its [N] markers;
\* the map holds, for each number, the trimmed plain text of the segment after
\* the last marker of that number whose segment is not empty (a later
\* definition of a number replaces an earlier one); a marker with an empty
\* segment adds no entry and replaces none; the content before the first
\* marker belongs to no number.
C7_LastSegmentStored ==
    Parsed =>
        LET ms == NotesMarkers(dom0)
        IN  /\ EntriesAreSegments(ms)
            /\ \A k \in 1..Len(ms) :
                  (/\ ms[k].body # <<>>
                   /\ \A j \in (k + 1)..Len(ms) : ms[j].num = ms[k].num => ms[j].body = <<>>)
                  => IsDefined(ms[k].num) /\ footnotes[ms[k].num] = ms[k].body

\* a block with a defined marker, a marker with an empty segment and text
\* before the first marker has been parsed
C7_Witness ==
    /\ Parsed
    /\ DOMAIN footnotes # {}
    /\ \E k \in 1..Len(NotesMarkers(dom0)) : NotesMarkers(dom0)[k].body = <<>>
    /\ \E k \in 1..Len(NotesMarkers(dom0)) :
          /\ NotesMarkers(dom0)[k].body # <<>>
          /\ \E j \in (k + 1)..Len(NotesMarkers(dom0)) :
                NotesMarkers(dom0)[j].num = NotesMarkers(dom0)[k].num

(***************************************************************************)
(* What the plain-text pass skips.                                         *)
(***************************************************************************)
\* C9: the plain-text pass leaves every text-xs block exactly as it was, and
\* every control of the tree still holds its literal [N] label and no control.
C9_PlainPassSkipsNotesAndControls ==
    [][pc = "linked" /\ pc' = "ready" =>
          /\ NotesSections(prose') = NotesSections(prose)
          /\ \A i \in 1..Len(Controls(prose)) : WellFormedControl(Controls(prose)[i])
          /\ \A i \in 1..Len(Controls(prose')) : WellFormedControl(Controls(prose')[i])
          /\ Len(Controls(prose')) =
                Len(Controls(prose)) + Len(CitationNums(prose.kids, FALSE))]_vars

\* the pass has run on a tree with a defined [N] in its notes block, a control
\* made by the linked pass and a plain citation
C9_Witness ==
    /\ pc = "ready"
    /\ \E i \in 1..Len(dom0.kids[1].kids) : IsLinkedCitation(dom0.kids[1].kids[i])
    /\ \E i \in 1..Len(dom0.kids[1].kids) :
          IsText(dom0.kids[1].kids[i]) /\ HasDefinedMarker(dom0.kids[1].kids[i].text)
    /\ \E b \in 1..Len(NotesSections(prose)) :
          \E k \in 1..Len(BlockMarkers(NotesSections(prose)[b])) :
              IsDefined(BlockMarkers(NotesSections(prose)[b])[k].num)

(***************************************************************************)
(* The popover engine.                                                     *)
(***************************************************************************)
Breakpoint == 768
Widths == {767, 768}
DragThreshold == 80
TouchStartYs == {100}
TouchMoveYs == {20, 180, 181}
Keys == {"Escape", "Enter"}

MapDrop(m, S) == [x \in DOMAIN m \ S |-> m[x]]

TranslateYPercent(n) == [unit |-> "%", v |-> n]
TranslateYPx(n) == [unit |-> "px", v |-> n]
Opacity(n) == [unit |-> "opacity", v |-> n]

\* startY and currentY of a sheet's closure; they are written by touchstart
\* before any read, so their values between gestures are not kept
NoTouch == [startY |-> 0, currentY |-> 0, down |-> FALSE]

IsMobile_Inclusive == innerWidth <= Breakpoint

\* function isMobile
IsMobile == innerWidth < Breakpoint

Present(handle) == IF handle = Null THEN {} ELSE {handle}

\* initFootnotes has returned: events are delivered from then on
Loaded == pc \in {"ready", "exit"}

Dismissed_TooltipOnly ==
    [activeTooltip |-> Null,
     activeSheet |-> activeSheet,
     backdrop |-> backdrop,
     body |-> body \ Present(activeTooltip),
     style |-> style,
     transitionEnd |-> transitionEnd,
     removeTimers |-> removeTimers,
     docClick |-> FALSE,
     docKeydown |-> FALSE]

\* a variant of dismissAll that relies on transitionend alone
Dismissed_NoFallbackTimer ==
    LET exiting == Present(activeSheet) \cup Present(backdrop)
    IN  [activeTooltip |-> Null,
         activeSheet |-> Null,
         backdrop |-> Null,
         body |-> body \ Present(activeTooltip),
         style |-> [e \in DOMAIN style |->
                       IF e = activeSheet THEN TranslateYPercent(100)
                       ELSE IF e = backdrop THEN Opacity(0)
                       ELSE style[e]],
         transitionEnd |-> transitionEnd \cup exiting,
         removeTimers |-> removeTimers,
         docClick |-> FALSE,
         docKeydown |-> FALSE]

\* dismissAll: the values it leaves in the engine's state.  The tooltip is
\* removed at once; sheet and backdrop start their exit transition and are
\* removed by transitionend or by the 300 ms timer; both document listeners are
\* removed.
Dismissed ==
    LET exiting == Present(activeSheet) \cup Present(backdrop)
    IN  [activeTooltip |-> Null,
         activeSheet |-> Null,
         backdrop |-> Null,
         body |-> body \ Present(activeTooltip),
         style |-> [e \in DOMAIN style |->
                       IF e = activeSheet THEN TranslateYPercent(100)
                       ELSE IF e = backdrop THEN Opacity(0)
                       ELSE style[e]],
         transitionEnd |-> transitionEnd \cup exiting,
         removeTimers |-> removeTimers \cup exiting,
         docClick |-> FALSE,
         docKeydown |-> FALSE]

\* dismissAll() as a whole handler
DismissAll ==
    /\ activeTooltip' = Dismissed.activeTooltip
    /\ activeSheet' = Dismissed.activeSheet
    /\ backdrop' = Dismissed.backdrop
    /\ body' = Dismissed.body
    /\ style' = Dismissed.style
    /\ transitionEnd' = Dismissed.transitionEnd
    /\ removeTimers' = Dismissed.removeTimers
    /\ docClick' = Dismissed.docClick
    /\ docKeydown' = Dismissed.docKeydown

\* showTooltip(anchor, text); the position its animation frame computes is
\* not part of the state
ShowTooltip(text) ==
    LET tooltip == Element("tooltip", opens + 1, <<>>, text)
    IN  /\ activeTooltip' = tooltip
        /\ activeSheet' = Dismissed.activeSheet
        /\ backdrop' = Dismissed.backdrop
        /\ body' = Dismissed.body \cup {tooltip}
        /\ style' = Dismissed.style
        /\ transitionEnd' = Dismissed.transitionEnd
        /\ removeTimers' = Dismissed.removeTimers
        /\ docClick' = Dismissed.docClick
        /\ docKeydown' = Dismissed.docKeydown
        /\ attachTimers' = attachTimers + 1
        /\ opens' = opens + 1
        /\ UNCHANGED <<touch, frames>>

\* showBottomSheet(num, text)
ShowBottomSheet(num, text) ==
    LET newBackdrop == Element("backdrop", opens + 1, <<>>, <<>>)
        sheet == Element("sheet", opens + 1, num, text)
    IN  /\ activeTooltip' = Dismissed.activeTooltip
        /\ backdrop' = newBackdrop
        /\ activeSheet' = sheet
        /\ body' = Dismissed.body \cup {newBackdrop, sheet}
        /\ style' = MapSet(MapSet(Dismissed.style, newBackdrop, Opacity(0)),
                           sheet, TranslateYPercent(100))
        /\ transitionEnd' = Dismissed.transitionEnd
        /\ removeTimers' = Dismissed.removeTimers
        /\ docClick' = Dismissed.docClick
        /\ docKeydown' = TRUE
        /\ frames' = frames \cup {sheet}
        /\ touch' = MapSet(touch, sheet, NoTouch)
        /\ opens' = opens + 1
        /\ UNCHANGED attachTimers

\* some element with data-fn = num is inside n: a click can have a target
\* whose closest("[data-fn]") carries num
RECURSIVE HasControl(_, _)
HasControl(n, num) ==
    \E i \in 1..Len(n.kids) :
        \/ n.kids[i].hasFn /\ n.kids[i].fn = num
        \/ HasControl(n.kids[i], num)

\* the click listener of the prose container, for a click whose target is
\* inside the control of number num; propagation stops here
ClickControl(num) ==
    /\ handlerInstalled
    /\ opens < MaxOpens
    /\ HasControl(prose, num)
    /\ num \in DOMAIN footnotes
    /\ IF IsMobile THEN ShowBottomSheet(num, footnotes[num])
                   ELSE ShowTooltip(footnotes[num])
    /\ UNCHANGED <<domVars, extVars, innerWidth>>

\* onDocClick for a click whose target is outside every popover and control
ClickElsewhere ==
    /\ Loaded
    /\ IF docClick /\ activeTooltip # Null
       THEN DismissAll
       ELSE UNCHANGED <<activeTooltip, activeSheet, backdrop, body, style,
                        transitionEnd, removeTimers, docClick, docKeydown>>
    /\ UNCHANGED <<domVars, extVars, innerWidth, attachTimers, frames, touch, opens>>

\* onDocClick for a click inside the element el of document.body that is a
\* tooltip or a sheet
ClickPopover(el) ==
    /\ Loaded
    /\ el \in body
    /\ el.kind \in {"tooltip", "sheet"}
    /\ IF docClick /\ activeTooltip # Null /\ el # activeTooltip
       THEN DismissAll
       ELSE UNCHANGED <<activeTooltip, activeSheet, backdrop, body, style,
                        transitionEnd, removeTimers, docClick, docKeydown>>
    /\ UNCHANGED <<domVars, extVars, innerWidth, attachTimers, frames, touch, opens>>

\* the click listener of a backdrop: dismissAll
ClickBackdrop(el) ==
    /\ Loaded
    /\ el \in body
    /\ el.kind = "backdrop"
    /\ DismissAll
    /\ UNCHANGED <<domVars, extVars, innerWidth, attachTimers, frames, touch, opens>>

\* onEsc
KeyDown(key) ==
    /\ Loaded
    /\ IF docKeydown /\ key = "Escape"
       THEN DismissAll
       ELSE UNCHANGED <<activeTooltip, activeSheet, backdrop, body, style,
                        transitionEnd, removeTimers, docClick, docKeydown>>
    /\ UNCHANGED <<domVars, extVars, innerWidth, attachTimers, frames, touch, opens>>

\* the setTimeout(.., 0) callback of showTooltip
AttachTimerFires ==
    /\ Loaded
    /\ attachTimers > 0
    /\ attachTimers' = attachTimers - 1
    /\ docClick' = TRUE
    /\ docKeydown' = TRUE
    /\ UNCHANGED <<domVars, extVars, innerWidth, activeTooltip, activeSheet, backdrop, body,
                   style, transitionEnd, removeTimers, frames, touch, opens>>

\* element.remove(): out of the document, no event reaches it any more
Removed(el) ==
    [body |-> body \ {el},
     style |-> MapDrop(style, {el}),
     touch |-> MapDrop(touch, {el}),
     transitionEnd |-> transitionEnd \ {el}]

\* the setTimeout(() => s.remove(), 300) callback of dismissAll
RemoveTimerFires(el) ==
    /\ Loaded
    /\ el \in removeTimers
    /\ removeTimers' = removeTimers \ {el}
    /\ body' = Removed(el).body
    /\ style' = Removed(el).style
    /\ touch' = Removed(el).touch
    /\ transitionEnd' = Removed(el).transitionEnd
    /\ UNCHANGED <<domVars, extVars, innerWidth, activeTooltip, activeSheet, backdrop, docClick,
                   docKeydown, attachTimers, frames, opens>>

\* the {once} transitionend listener of dismissAll
TransitionEnds(el) ==
    /\ Loaded
    /\ el \in transitionEnd
    /\ el \in body
    /\ body' = Removed(el).body
    /\ style' = Removed(el).style
    /\ touch' = Removed(el).touch
    /\ transitionEnd' = Removed(el).transitionEnd
    /\ UNCHANGED <<domVars, extVars, innerWidth, activeTooltip, activeSheet, backdrop, docClick,
                   docKeydown, attachTimers, removeTimers, frames, opens>>

\* the requestAnimationFrame callback of showBottomSheet:
\* backdrop!.style.opacity = "1" reads the module variable, and throws when
\* it is null, before the sheet is moved
FrameFires(el) ==
    /\ Loaded
    /\ el \in frames
    /\ frames' = frames \ {el}
    /\ style' = IF el.kind = "sheet" /\ backdrop # Null
                THEN [e \in DOMAIN style |->
                         IF e = backdrop THEN Opacity(1)
                         ELSE IF e = el THEN TranslateYPx(0)
                         ELSE style[e]]
                ELSE style
    /\ UNCHANGED <<domVars, extVars, innerWidth, activeTooltip, activeSheet, backdrop, body,
                   docClick, docKeydown, attachTimers, removeTimers, transitionEnd,
                   touch, opens>>

\* the touchstart listener of a sheet
TouchStart(el, y) ==
    /\ Loaded
    /\ el \in body /\ el.kind = "sheet"
    /\ ~touch[el].down
    /\ touch' = [touch EXCEPT ![el] = [startY |-> y, currentY |-> y, down |-> TRUE]]
    /\ UNCHANGED <<domVars, extVars, innerWidth, activeTooltip, activeSheet, backdrop, body,
                   docClick, docKeydown, attachTimers, removeTimers, transitionEnd,
                   frames, style, opens>>

Max(a, b) == IF a >= b THEN a ELSE b

\* the touchmove listener of a sheet
TouchMove(el, y) ==
    /\ Loaded
    /\ el \in body /\ el.kind = "sheet"
    /\ touch[el].down
    /\ touch' = [touch EXCEPT ![el].currentY = y]
    /\ style' = [style EXCEPT ![el] = TranslateYPx(Max(0, y - touch[el].startY))]
    /\ UNCHANGED <<domVars, extVars, innerWidth, activeTooltip, activeSheet, backdrop, body,
                   docClick, docKeydown, attachTimers, removeTimers, transitionEnd,
                   frames, opens>>

DragCommits_Inclusive(t) == t.currentY - t.startY >= DragThreshold

\* if (currentY - startY > 80)
DragCommits(t) == t.currentY - t.startY > DragThreshold

\* the touchend listener of a sheet
TouchEnd(el) ==
    /\ Loaded
    /\ el \in body /\ el.kind = "sheet"
    /\ touch[el].down
    /\ touch' = [touch EXCEPT ![el] = NoTouch]
    /\ IF DragCommits(touch[el])
       THEN DismissAll
       ELSE /\ style' = [style EXCEPT ![el] = TranslateYPx(0)]
            /\ UNCHANGED <<activeTooltip, activeSheet, backdrop, body, transitionEnd,
                           removeTimers, docClick, docKeydown>>
    /\ UNCHANGED <<domVars, extVars, innerWidth, attachTimers, frames, opens>>

\* the window is resized
Resize(w) ==
    /\ Loaded
    /\ w # innerWidth
    /\ innerWidth' = w
    /\ UNCHANGED <<domVars, extVars, activeTooltip, activeSheet, backdrop, body, docClick,
                   docKeydown, attachTimers, removeTimers, transitionEnd, frames,
                   touch, style, opens>>

(***************************************************************************)
(* The page: a rendered document, initFootnotes, then the events.          *)
(***************************************************************************)
Notes12 == NotesDiv(StrNotes, <<T(Str1 \o <<" ", "x">> \o Str2 \o <<"y">>)>>)

PageDocs ==
    { NoProse,
      ProseOf(FixedPara, <<>>),
      ProseOf(FixedPara, <<NotesDiv(StrThanks, <<T(Str1 \o <<" ", "x">>)>>)>>),
      ProseOf(FixedPara, <<NotesDiv(StrNotes, <<T(Str1 \o <<" ">> \o Str2)>>)>>),
      ProseOf(FixedPara, <<PlainSmallDiv(<<T(Str1 \o <<"x">>)>>)>>),
      ProseOf(FixedPara, <<Notes12>>) }

Init ==
    /\ dom0 \in PageDocs
    /\ prose = dom0
    /\ footnotes = EmptyMap
    /\ pc = "start"
    /\ handlerInstalled = FALSE
    /\ PopInit
    /\ ExtInit
    /\ innerWidth \in Widths

Next ==
    \/ ParseStep
    \/ LinkedStep
    \/ PlainStep
    \/ \E num \in {<<"1">>, <<"2">>} : ClickControl(num) /\ UNCHANGED last
    \/ ClickElsewhere /\ UNCHANGED last
    \/ \E el \in body : ClickPopover(el) /\ UNCHANGED last
    \/ \E el \in body : ClickBackdrop(el) /\ UNCHANGED last
    \/ \E key \in Keys : KeyDown(key) /\ UNCHANGED last
    \/ AttachTimerFires /\ UNCHANGED last
    \/ \E el \in removeTimers : RemoveTimerFires(el) /\ UNCHANGED last
    \/ \E el \in transitionEnd : TransitionEnds(el) /\ UNCHANGED last
    \/ \E el \in frames : FrameFires(el) /\ UNCHANGED last
    \/ \E el \in body, y \in TouchStartYs : TouchStart(el, y) /\ UNCHANGED last
    \/ \E el \in body, y \in TouchMoveYs : TouchMove(el, y) /\ UNCHANGED last
    \/ \E el \in body : TouchEnd(el) /\ UNCHANGED last
    \/ \E w \in Widths : Resize(w) /\ UNCHANGED last

Spec == Init /\ [][Next]_vars

(***************************************************************************)
(* The page with the history of the delivered events.                      *)
(***************************************************************************)
\* an element the rendered essay already gives a data-fn attribute
Orphan(num) == Node("span", <<>>, <<>>, "", TRUE, num, <<>>, <<TextNode(<<"x">>)>>)
Str7 == <<"7">>

ClickOrphan_Propagates(num) ==
    /\ handlerInstalled
    /\ HasControl(prose, num)
    /\ num = <<>> \/ num \notin DOMAIN footnotes
    /\ IF docClick /\ activeTooltip # Null
       THEN DismissAll
       ELSE UNCHANGED <<activeTooltip, activeSheet, backdrop, body, style,
                        transitionEnd, removeTimers, docClick, docKeydown>>
    /\ UNCHANGED <<domVars, extVars, innerWidth, attachTimers, frames, touch, opens>>

\* the click listener of the prose container, for a click whose target is
\* inside an element whose data-fn is empty or has no entry in the map: the
\* event is cancelled and stopped, and the handler returns
ClickOrphan(num) ==
    /\ handlerInstalled
    /\ HasControl(prose, num)
    /\ num = <<>> \/ num \notin DOMAIN footnotes
    /\ UNCHANGED <<domVars, extVars, innerWidth, activeTooltip, activeSheet, backdrop,
                   body, docClick, docKeydown, attachTimers, removeTimers,
                   transitionEnd, frames, touch, style, opens>>

EvDocs ==
    { ProseOf(Para(<<T(Str2 \o Str1), Orphan(Str7), Orphan(<<>>)>>), <<Notes12>>) }

InitEv ==
    /\ dom0 \in EvDocs
    /\ prose = dom0
    /\ footnotes = EmptyMap
    /\ pc = "start"
    /\ handlerInstalled = FALSE
    /\ PopInit
    /\ ExtInit
    /\ innerWidth \in Widths

Other == Event("other", Null, "")

NextEv ==
    \/ ParseStep
    \/ LinkedStep
    \/ PlainStep
    \/ \E num \in {<<"1">>, <<"2">>} : ClickControl(num) /\ last' = Event("activate", Null, "")
    \/ \E num \in {Str7, <<>>} : ClickOrphan(num) /\ last' = Event("clickOrphan", Null, "")
    \/ ClickElsewhere /\ last' = Event("clickElsewhere", Null, "")
    \/ \E el \in body : ClickPopover(el) /\ last' = Event("clickPopover", el, "")
    \/ \E el \in body : ClickBackdrop(el) /\ last' = Event("clickBackdrop", el, "")
    \/ \E key \in Keys : KeyDown(key) /\ last' = Event("keydown", Null, key)
    \/ AttachTimerFires /\ last' = Other
    \/ \E el \in removeTimers : RemoveTimerFires(el) /\ last' = Other
    \/ \E el \in transitionEnd : TransitionEnds(el) /\ last' = Other
    \/ \E el \in frames : FrameFires(el) /\ last' = Other
    \/ \E w \in Widths : Resize(w) /\ last' = Other

SpecEv == InitEv /\ [][NextEv]_vars

(***************************************************************************)
(* The same events with timers that fire: a timer set with setTimeout is   *)
(* run by the event loop once its delay has passed.  Nothing makes a       *)
(* transition end, so transitionend gets no fairness.                      *)
(***************************************************************************)
\* a removal trigger of the element el, with whether el was still in the
\* document when the trigger ran
TriggerEvent(ev, el) == Event(ev, el, IF el \in body THEN "attached" ELSE "detached")

RemoveTimerRuns ==
    \E el \in removeTimers : RemoveTimerFires(el) /\ last' = TriggerEvent("removeTimer", el)

NextClean ==
    \/ ParseStep
    \/ LinkedStep
    \/ PlainStep
    \/ \E num \in {<<"1">>, <<"2">>} : ClickControl(num) /\ last' = Event("activate", Null, "")
    \/ ClickElsewhere /\ last' = Event("clickElsewhere", Null, "")
    \/ \E el \in body : ClickBackdrop(el) /\ last' = Event("clickBackdrop", el, "")
    \/ \E key \in Keys : KeyDown(key) /\ last' = Event("keydown", Null, key)
    \/ AttachTimerFires /\ last' = Other
    \/ RemoveTimerRuns
    \/ \E el \in transitionEnd :
          TransitionEnds(el) /\ last' = TriggerEvent("transitionend", el)
    \/ \E el \in frames : FrameFires(el) /\ last' = Other
    \/ \E w \in Widths : Resize(w) /\ last' = Other

SpecClean == InitEv /\ [][NextClean]_vars /\ WF_vars(RemoveTimerRuns)

(***************************************************************************)
(* The bottom sheet under touch gestures, with the history of the gesture  *)
(* that ended last.                                                        *)
(***************************************************************************)
\* a touchend on the sheet el after a drag of dy = currentY - startY
TouchEndEvent(el, dy) == [ev |-> "touchend", el |-> el, key |-> "", dy |-> dy]

\* touch positions of a gesture that starts at 100: an upward drag and drags of
\* 50, 80, 81 and 90 px
DragYs == {20, 150, 180, 181, 190}

InitTouch ==
    /\ dom0 \in EvDocs
    /\ prose = dom0
    /\ footnotes = EmptyMap
    /\ pc = "start"
    /\ handlerInstalled = FALSE
    /\ PopInit
    /\ ExtInit
    /\ innerWidth \in Widths

NextTouch ==
    \/ ParseStep
    \/ LinkedStep
    \/ PlainStep
    \/ \E num \in {<<"1">>, <<"2">>} : ClickControl(num) /\ last' = Other
    \/ \E el \in body, y \in TouchStartYs : TouchStart(el, y) /\ last' = Other
    \/ \E el \in body, y \in DragYs : TouchMove(el, y) /\ last' = Other
    \/ \E el \in body :
          TouchEnd(el) /\ last' = TouchEndEvent(el, touch[el].currentY - touch[el].startY)
    \/ \E el \in removeTimers : RemoveTimerFires(el) /\ last' = Other
    \/ \E el \in transitionEnd : TransitionEnds(el) /\ last' = Other
    \/ \E el \in frames : FrameFires(el) /\ last' = Other

SpecTouch == InitTouch /\ [][NextTouch]_vars

(***************************************************************************)
(* The placement of the tooltip.  Lengths are whole pixels; a horizontal   *)
(* position is kept doubled (left2 = 2 * left), which makes the halves of  *)
(* the centring exact.                                                     *)
(***************************************************************************)
Margin == 8
Min(a, b) == IF a <= b THEN a ELSE b

\* anchor.getBoundingClientRect() of a control 20 px high
Rect(top, left, width) == [top |-> top, bottom |-> top + 20, left |-> left, width |-> width]
Rects == {Rect(t, l, w) : t \in {0, 31, 32, 100}, l \in {0, 5, 330, 740}, w \in {20, 21}}

\* tooltip.getBoundingClientRect(): max-width 360px
TRects == {[height |-> h, width |-> w] : h \in {16, 40}, w \in {40, 360}}

PlaceWidths == {360, 768, 1024}

PlaceTop_AlwaysAbove(rect, tRect) == rect.top - tRect.height - Margin

\* let top = rect.top - tRect.height - 8; if (top < 8) top = rect.bottom + 8;
PlaceTop(rect, tRect) ==
    LET top == rect.top - tRect.height - Margin
    IN  IF top < Margin THEN rect.bottom + Margin ELSE top

PlaceLeft2_NoRightClamp(rect, tRect, W) ==
    Max(2 * Margin, 2 * rect.left + rect.width - tRect.width)

\* let left = rect.left + rect.width / 2 - tRect.width / 2;
\* left = Math.max(8, Math.min(left, window.innerWidth - tRect.width - 8));
PlaceLeft2(rect, tRect, W) ==
    LET left2 == 2 * rect.left + rect.width - tRect.width
    IN  Max(2 * Margin, Min(left2, 2 * (W - tRect.width - Margin)))

\* the prose click listener at a width of 768 or more: showTooltip measures
\* the control, creates the tooltip and requests the animation frame
ClickControlAt(num, rect) ==
    /\ handlerInstalled
    /\ opens < MaxOpens
    /\ HasControl(prose, num)
    /\ num \in DOMAIN footnotes
    /\ ~IsMobile
    /\ ShowTooltip(footnotes[num])
    /\ place' = [state |-> "measured", rect |-> rect]
    /\ UNCHANGED <<domVars, innerWidth, last, store, now, tracker, prefVars, annVars, tabs>>

\* the requestAnimationFrame callback of showTooltip: the tooltip is measured
\* and positioned
PlaceFrame(tRect) ==
    /\ place.state = "measured"
    /\ place' = [state |-> "placed", rect |-> place.rect, tRect |-> tRect,
                 W |-> innerWidth,
                 top |-> PlaceTop(place.rect, tRect),
                 left2 |-> PlaceLeft2(place.rect, tRect, innerWidth)]
    /\ UNCHANGED <<domVars, popVars, store, now, tracker, prefVars, annVars, tabs>>

InitPlace ==
    /\ dom0 \in EvDocs
    /\ prose = dom0
    /\ footnotes = EmptyMap
    /\ pc = "start"
    /\ handlerInstalled = FALSE
    /\ PopInit
    /\ ExtInit
    /\ innerWidth \in PlaceWidths

NextPlace ==
    \/ ParseStep
    \/ LinkedStep
    \/ PlainStep
    \/ \E num \in {<<"1">>}, rect \in Rects : ClickControlAt(num, rect)
    \/ \E tRect \in TRects : PlaceFrame(tRect)
    \/ \E w \in PlaceWidths : Resize(w) /\ UNCHANGED last

SpecPlace == InitPlace /\ [][NextPlace]_vars

(***************************************************************************)
(* The reading history (reading-history.ts).  The stored item is missing,  *)
(* unparseable text, or the text of a history: a map from slug to record.  *)
(* A record is a function from the names of the fields it has to their     *)
(* values; lastReadAt is the clock value of new Date().                    *)
(***************************************************************************)
MaxNow == 2
Slugs == {"a", "b"}
WordCounts == {0, 3, 5}
Positions == {0, 7}
PageSlug == "a"
PageWordCount == 3
PageDenom == 20
ScrollYs == {0, 2, 18, 19}

Corrupt == [kind |-> "text"]
Json(history) == [kind |-> "json", map |-> history]

\* getHistory: JSON.parse(localStorage.getItem(HISTORY_KEY) || "{}"), {} when
\* parsing throws
getHistory(st) == IF st.kind = "json" THEN st.map ELSE EmptyMap

\* saveHistory: localStorage.setItem(HISTORY_KEY, JSON.stringify(history))
saveHistory(history) == Json(history)

\* { ...history[slug], ...fields }: spreading undefined adds nothing
Spread(history, slug, fields) ==
    LET old == IF slug \in DOMAIN history THEN history[slug] ELSE EmptyMap
    IN  [f \in DOMAIN old \cup DOMAIN fields |->
            IF f \in DOMAIN fields THEN fields[f] ELSE old[f]]

HasField(history, slug, f) == slug \in DOMAIN history /\ f \in DOMAIN history[slug]

\* history[slug]?.read || false
ReadOf(history, slug) == HasField(history, slug, "read") /\ history[slug].read

\* history[slug]?.wordCount || 0
WordCountOf(history, slug) ==
    IF HasField(history, slug, "wordCount") THEN history[slug].wordCount ELSE 0

\* history[slug]?.scrollPosition || 0
ScrollPositionOf(history, slug) ==
    IF HasField(history, slug, "scrollPosition") THEN history[slug].scrollPosition ELSE 0

\* history[slug]?.lastReadAt || new Date().toISOString()
LastReadAtOf(history, slug, t) ==
    IF HasField(history, slug, "lastReadAt") THEN history[slug].lastReadAt ELSE t

markAsRead_KeepingWordCount(st, slug, wordCount, t) ==
    LET history == getHistory(st)
    IN  saveHistory(MapSet(history, slug,
            Spread(history, slug,
                   [read |-> TRUE, lastReadAt |-> t,
                    wordCount |-> IF HasField(history, slug, "wordCount")
                                  THEN history[slug].wordCount ELSE wordCount])))

\* a variant of markAsRead that saves the one record alone
markAsRead_DroppingOthers(st, slug, wordCount, t) ==
    saveHistory(MapSet(EmptyMap, slug,
        Spread(getHistory(st), slug,
               [read |-> TRUE, lastReadAt |-> t, wordCount |-> wordCount])))

\* markAsRead(slug, wordCount) at time t: the stored item afterwards
markAsRead(st, slug, wordCount, t) ==
    LET history == getHistory(st)
    IN  saveHistory(MapSet(history, slug,
            Spread(history, slug,
                   [read |-> TRUE, lastReadAt |-> t, wordCount |-> wordCount])))

saveScrollPosition_ResettingRead(st, slug, position, t) ==
    LET history == getHistory(st)
    IN  saveHistory(MapSet(history, slug,
            Spread(history, slug,
                   [scrollPosition |-> position,
                    read |-> FALSE,
                    lastReadAt |-> LastReadAtOf(history, slug, t),
                    wordCount |-> WordCountOf(history, slug)])))

saveScrollPosition_ZeroWordCount(st, slug, position, t) ==
    LET history == getHistory(st)
    IN  saveHistory(MapSet(history, slug,
            Spread(history, slug,
                   [scrollPosition |-> position,
                    read |-> ReadOf(history, slug),
                    lastReadAt |-> LastReadAtOf(history, slug, t),
                    wordCount |-> 0])))

\* saveScrollPosition(slug, position) at time t: the stored item afterwards
saveScrollPosition(st, slug, position, t) ==
    LET history == getHistory(st)
    IN  saveHistory(MapSet(history, slug,
            Spread(history, slug,
                   [scrollPosition |-> position,
                    read |-> ReadOf(history, slug),
                    lastReadAt |-> LastReadAtOf(history, slug, t),
                    wordCount |-> WordCountOf(history, slug)])))

getScrollPosition(st, slug) == ScrollPositionOf(getHistory(st), slug)

isRead(st, slug) == ReadOf(getHistory(st), slug)

\* the loop of getStats over the records not yet visited
RECURSIVE StatsLoop(_, _, _)
StatsLoop(history, todo, acc) ==
    IF todo = {} THEN acc
    ELSE LET slug == CHOOSE x \in todo : TRUE
             record == history[slug]
         IN  StatsLoop(history, todo \ {slug},
                 IF "read" \in DOMAIN record /\ record.read
                 THEN [essaysRead |-> acc.essaysRead + 1,
                       wordsRead |-> acc.wordsRead +
                           (IF "wordCount" \in DOMAIN record THEN record.wordCount ELSE 0)]
                 ELSE acc)

getStats_CountingAll(st) ==
    LET history == getHistory(st)
    IN  [essaysRead |-> Cardinality(DOMAIN history),
         wordsRead |-> StatsLoop(history, DOMAIN history,
                                 [essaysRead |-> 0, wordsRead |-> 0]).wordsRead]

getStats(st) ==
    LET history == getHistory(st)
    IN  StatsLoop(history, DOMAIN history, [essaysRead |-> 0, wordsRead |-> 0])

\* the variables of the footnote engine
engineVars == <<domVars, innerWidth, activeTooltip, activeSheet, backdrop, body, docClick,
                docKeydown, attachTimers, removeTimers, transitionEnd, frames, touch,
                style, opens, place, tabs>>

Call(op, slug, arg) == [ev |-> op, slug |-> slug, arg |-> arg]

\* a call of markAsRead
MarkAsRead(slug, wordCount) ==
    /\ store' = markAsRead(store, slug, wordCount, now)
    /\ last' = Call("markAsRead", slug, wordCount)
    /\ UNCHANGED <<engineVars, now, tracker, prefVars, annVars>>

\* a call of saveScrollPosition
SaveScrollPosition(slug, position) ==
    /\ store' = saveScrollPosition(store, slug, position, now)
    /\ last' = Call("saveScrollPosition", slug, position)
    /\ UNCHANGED <<engineVars, now, tracker, prefVars, annVars>>

\* time passes
ClockTick ==
    /\ now < MaxNow
    /\ now' = now + 1
    /\ UNCHANGED <<engineVars, last, store, tracker, prefVars, annVars>>

\* const scrollPercent = window.scrollY / (scrollHeight - innerHeight);
\* if (scrollPercent > 0.9): the comparison, for a positive scrollable height
PastNinetyPercent_Inclusive(y, denom) == 10 * y >= 9 * denom

PastNinetyPercent(y, denom) == 10 * y > 9 * denom

\* the window scrolls to y and the scroll listener of initScrollTracking runs
Scroll(y) ==
    /\ y # tracker.scrollY
    /\ tracker' = [tracker EXCEPT !.scrollY = y, !.ticking = TRUE]
    /\ last' = Other
    /\ UNCHANGED <<engineVars, store, now, prefVars, annVars>>

\* the requestAnimationFrame callback of the scroll listener
ScrollFrame ==
    /\ tracker.ticking
    /\ LET saved == saveScrollPosition(store, PageSlug, tracker.scrollY, now)
       IN  store' = IF PastNinetyPercent(tracker.scrollY, tracker.denom)
                    THEN markAsRead(saved, PageSlug, PageWordCount, now)
                    ELSE saved
    /\ tracker' = [tracker EXCEPT !.ticking = FALSE,
                                  !.maxY = Max(tracker.maxY, tracker.scrollY)]
    /\ last' = Call("frame", PageSlug, tracker.scrollY)
    /\ UNCHANGED <<engineVars, now, prefVars, annVars>>

InitHist ==
    /\ dom0 = NoProse
    /\ prose = dom0
    /\ footnotes = EmptyMap
    /\ pc = "start"
    /\ handlerInstalled = FALSE
    /\ PopInit
    /\ innerWidth = 1024
    /\ place = NoPlace
    /\ store \in {Missing, Corrupt}
    /\ now = 0
    /\ tracker = [NoTracker EXCEPT !.denom = PageDenom]
    /\ prefs = Missing /\ root = NoRoot /\ annStore = Missing /\ uuids = 0
    /\ tabs = NoTabs

NextHist ==
    \/ \E slug \in Slugs, wordCount \in WordCounts : MarkAsRead(slug, wordCount)
    \/ \E slug \in Slugs, position \in Positions : SaveScrollPosition(slug, position)
    \/ ClockTick
    \/ \E y \in ScrollYs : Scroll(y)
    \/ ScrollFrame

SpecHist == InitHist /\ [][NextHist]_vars

\* the page is marked read by its scroll tracking only
NextScroll ==
    \/ \E slug \in Slugs \ {PageSlug}, wordCount \in WordCounts : MarkAsRead(slug, wordCount)
    \/ \E slug \in Slugs, position \in Positions : SaveScrollPosition(slug, position)
    \/ ClockTick
    \/ \E y \in ScrollYs : Scroll(y)
    \/ ScrollFrame

SpecScroll == InitHist /\ [][NextScroll]_vars

(***************************************************************************)
(* The reader settings (reader-settings.ts).  The stored item is missing,  *)
(* unparseable text, a JSON value that is no object, or the text of a      *)
(* record; what localStorage holds when the page loads is input: an earlier*)
(* version of the site or the user may have written it.                    *)
(***************************************************************************)
DEFAULTS ==
    [theme |-> "white", fontFamily |-> "sans", fontSize |-> 2, lineHeight |-> 1,
     contentWidth |-> "medium"]

FONT_SIZES == <<"14px", "16px", "18px", "20px", "22px">>
LINE_HEIGHTS == <<"1.5", "1.7", "2.0">>
MAX_WIDTHS == [narrow |-> "55ch", medium |-> "65ch", wide |-> "80ch"]
FONT_FAMILIES ==
    [sans |-> "system-ui, -apple-system, sans-serif",
     serif |-> "Georgia, 'Times New Roman', serif",
     dyslexic |-> "'OpenDyslexic', system-ui, sans-serif"]

THEME_MIGRATION == [light |-> "white", sepia |-> "tan", dark |-> "black"]

\* const themes = ["white", "tan", "grey", "black"]
themes == <<"white", "tan", "grey", "black">>

\* JSON.parse gave null, a number or a boolean: spreading it adds nothing
Scalar == [kind |-> "scalar"]

\* { ...a, ...b }
SpreadOver(a, b) == [f \in DOMAIN a \cup DOMAIN b |-> IF f \in DOMAIN b THEN b[f] ELSE a[f]]

loadSettings_DefaultsWin(st) ==
    IF st.kind = "json"
    THEN LET parsed == SpreadOver(st.map, DEFAULTS)
         IN  IF parsed.theme \in DOMAIN THEME_MIGRATION
             THEN [parsed EXCEPT !.theme = THEME_MIGRATION[parsed.theme]]
             ELSE parsed
    ELSE DEFAULTS

loadSettings_NoMigration(st) ==
    IF st.kind = "json" THEN SpreadOver(DEFAULTS, st.map) ELSE DEFAULTS

\* loadSettings(): the record it returns for a stored item
loadSettings(st) ==
    IF st.kind = "json"
    THEN LET parsed == SpreadOver(DEFAULTS, st.map)
         IN  IF parsed.theme \in DOMAIN THEME_MIGRATION
             THEN [parsed EXCEPT !.theme = THEME_MIGRATION[parsed.theme]]
             ELSE parsed
    ELSE DEFAULTS

\* table[key] as a string: "undefined" when the table has no such entry
Lookup(table, key) == IF key \in DOMAIN table THEN table[key] ELSE "undefined"

\* array[index] for a 0-based index
At(array, index) ==
    IF index + 1 \in DOMAIN array THEN array[index + 1] ELSE "undefined"

applySettings_SettingWhite(settings) ==
    [dataTheme |-> <<settings.theme>>,
     style |-> [family |-> Lookup(FONT_FAMILIES, settings.fontFamily),
                size |-> At(FONT_SIZES, settings.fontSize),
                lineHeight |-> At(LINE_HEIGHTS, settings.lineHeight),
                maxWidth |-> Lookup(MAX_WIDTHS, settings.contentWidth)]]

\* applySettings(settings): the root element afterwards
applySettings(settings) ==
    [dataTheme |-> IF settings.theme = "white" THEN <<>> ELSE <<settings.theme>>,
     style |-> [family |-> Lookup(FONT_FAMILIES, settings.fontFamily),
                size |-> At(FONT_SIZES, settings.fontSize),
                lineHeight |-> At(LINE_HEIGHTS, settings.lineHeight),
                maxWidth |-> Lookup(MAX_WIDTHS, settings.contentWidth)]]

\* saveSettings(settings): setItem(JSON.stringify(settings)), then applySettings
saveSettings(settings) ==
    /\ prefs' = Json(settings)
    /\ root' = applySettings(settings)

\* themes.indexOf(theme), 0-based, -1 when absent
IndexOf(array, x) ==
    IF \E i \in DOMAIN array : array[i] = x
    THEN (CHOOSE i \in DOMAIN array : array[i] = x /\ \A j \in 1..(i - 1) : array[j] # x) - 1
    ELSE -1

cycleTheme_NoWrap(st) ==
    LET settings == loadSettings(st)
        idx == IndexOf(themes, settings.theme)
    IN  [settings EXCEPT !.theme = themes[Min(idx + 1, Len(themes) - 1) + 1]]

\* cycleTheme(): the record it saves and returns
cycleTheme(st) ==
    LET settings == loadSettings(st)
        idx == IndexOf(themes, settings.theme)
    IN  [settings EXCEPT !.theme = themes[((idx + 1) % Len(themes)) + 1]]

adjustFontSize_NoLowerClamp(st, delta) ==
    LET settings == loadSettings(st)
    IN  [settings EXCEPT !.fontSize = Min(4, settings.fontSize + delta)]

\* adjustFontSize(delta): the record it saves and returns
adjustFontSize(st, delta) ==
    LET settings == loadSettings(st)
    IN  [settings EXCEPT !.fontSize = Max(0, Min(4, settings.fontSize + delta))]

\* the variables the settings actions leave alone
notPrefVars == <<engineVars, store, now, tracker, annVars>>

Returned(op, arg, ret) == [ev |-> op, arg |-> arg, ret |-> ret]

\* the settings panel saves a record
SaveSettings(settings) ==
    /\ saveSettings(settings)
    /\ last' = Returned("saveSettings", settings, settings)
    /\ UNCHANGED notPrefVars

CycleTheme ==
    /\ saveSettings(cycleTheme(prefs))
    /\ last' = Returned("cycleTheme", loadSettings(prefs), cycleTheme(prefs))
    /\ UNCHANGED notPrefVars

AdjustFontSize(delta) ==
    /\ saveSettings(adjustFontSize(prefs, delta))
    /\ last' = Returned("adjustFontSize", delta, adjustFontSize(prefs, delta))
    /\ UNCHANGED notPrefVars

\* initSettings(): applySettings(loadSettings())
InitSettings ==
    /\ root' = applySettings(loadSettings(prefs))
    /\ last' = Returned("initSettings", 0, loadSettings(prefs))
    /\ UNCHANGED <<notPrefVars, prefs>>

\* the records the settings panel can save
PanelSettings ==
    [theme : {"white", "tan", "grey", "black"}, fontFamily : {"sans", "serif"},
     fontSize : {0, 4}, lineHeight : {0, 2}, contentWidth : {"narrow", "wide"}]

\* records found in storage: partial, with legacy or unknown themes, with levels
\* outside their ranges
FoundRecords ==
    {EmptyMap}
    \cup {[theme |-> t] : t \in {"white", "tan", "grey", "black", "light", "sepia", "dark", "purple"}}
    \cup {[fontSize |-> n] : n \in {-1, 0, 3, 4, 9}}
    \cup {[lineHeight |-> 7], [fontFamily |-> "serif", contentWidth |-> "wide"]}
    \cup {[theme |-> t, fontFamily |-> "dyslexic", fontSize |-> 3, lineHeight |-> 0,
           contentWidth |-> "narrow"] : t \in {"sepia", "grey"}}

Deltas == {-10, -1, 0, 1, 10}

InitPref ==
    /\ dom0 = NoProse
    /\ prose = dom0
    /\ footnotes = EmptyMap
    /\ pc = "start"
    /\ handlerInstalled = FALSE
    /\ PopInit
    /\ innerWidth = 1024
    /\ place = NoPlace /\ store = Missing /\ now = 0 /\ tracker = NoTracker
    /\ annStore = Missing /\ uuids = 0
    /\ tabs = NoTabs
    /\ prefs \in {Missing, Corrupt, Scalar} \cup {Json(r) : r \in FoundRecords}
    /\ root = NoRoot

NextPref ==
    \/ \E settings \in PanelSettings : SaveSettings(settings)
    \/ CycleTheme
    \/ \E delta \in Deltas : AdjustFontSize(delta)
    \/ InitSettings

SpecPref == InitPref /\ [][NextPref]_vars

(***************************************************************************)
(* The annotation store (annotations.ts).  The stored item is missing,     *)
(* unparseable text, or the text of a map from slug to a list of           *)
(* annotations.  crypto.randomUUID() returns a value it has not returned   *)
(* before: the identifier is the number of values returned so far.         *)
(***************************************************************************)
MaxUuids == 3
AnnSlugs == {"a", "b"}

\* getStore: JSON.parse(localStorage.getItem(STORAGE_KEY) || "{}"), {} when
\* parsing throws
getStore(st) == IF st.kind = "json" THEN st.map ELSE EmptyMap

\* saveStore: localStorage.setItem(STORAGE_KEY, JSON.stringify(store))
saveStore(annotations) == Json(annotations)

\* getAnnotations(slug): getStore()[slug] || []
getAnnotations(st, slug) ==
    IF slug \in DOMAIN getStore(st) THEN getStore(st)[slug] ELSE <<>>

\* the record addAnnotation builds: { ...annotation, id, createdAt }
Full(annotation, id, t) == SpreadOver(annotation, [id |-> id, createdAt |-> t])

addAnnotation_IdFromLength(st, slug, annotation, id, t) ==
    saveStore(MapSet(getStore(st), slug,
        Append(getAnnotations(st, slug),
               Full(annotation, Len(getAnnotations(st, slug)) + 1, t))))

addAnnotation_Prepending(st, slug, annotation, id, t) ==
    saveStore(MapSet(getStore(st), slug,
        <<Full(annotation, id, t)>> \o getAnnotations(st, slug)))

\* addAnnotation(slug, annotation) with the identifier and the time it
\* draws: the stored item afterwards
addAnnotation(st, slug, annotation, id, t) ==
    saveStore(MapSet(getStore(st), slug,
        Append(getAnnotations(st, slug), Full(annotation, id, t))))

\* store[slug].filter((a) => a.id !== id)
RECURSIVE Filter(_, _)
Filter(list, id) ==
    IF list = <<>> THEN <<>>
    ELSE (IF Head(list).id # id THEN <<Head(list)>> ELSE <<>>) \o Filter(Tail(list), id)

removeAnnotation_KeepingEmpty(st, slug, id) ==
    IF slug \in DOMAIN getStore(st)
    THEN saveStore(MapSet(getStore(st), slug, Filter(getStore(st)[slug], id)))
    ELSE st

removeAnnotation_AnyDocument(st, slug, id) ==
    saveStore([s \in {x \in DOMAIN getStore(st) : Filter(getStore(st)[x], id) # <<>>} |->
                  Filter(getStore(st)[s], id)])

\* removeAnnotation(slug, id): the stored item afterwards
removeAnnotation(st, slug, id) ==
    IF slug \in DOMAIN getStore(st)
    THEN LET filtered == Filter(getStore(st)[slug], id)
         IN  IF Len(filtered) = 0
             THEN saveStore(MapDrop(getStore(st), {slug}))
             ELSE saveStore(MapSet(getStore(st), slug, filtered))
    ELSE st

\* the variables the annotation actions leave alone
notAnnVars == <<engineVars, store, tracker, prefVars>>

\* the records the highlight popover passes to addAnnotation
Highlights(slug) ==
    {[essaySlug |-> slug, text |-> pick[1], color |-> pick[2], startOffset |-> 0,
      endOffset |-> 0, parentSelector |-> ""] :
        pick \in {<<"x", "yellow">>, <<"y", "pink">>}}

AddAnnotation(slug, annotation) ==
    /\ uuids < MaxUuids
    /\ uuids' = uuids + 1
    /\ annStore' = addAnnotation(annStore, slug, annotation, uuids + 1, now)
    /\ last' = Returned("addAnnotation", <<slug, annotation>>, Full(annotation, uuids + 1, now))
    /\ UNCHANGED <<notAnnVars, now>>

RemoveAnnotation(slug, id) ==
    /\ annStore' = removeAnnotation(annStore, slug, id)
    /\ last' = Returned("removeAnnotation", <<slug, id>>, <<>>)
    /\ UNCHANGED <<notAnnVars, now, uuids>>

\* time passes
AnnClockTick ==
    /\ now < MaxNow
    /\ now' = now + 1
    /\ UNCHANGED <<notAnnVars, last, annVars>>

InitAnn ==
    /\ dom0 = NoProse
    /\ prose = dom0
    /\ footnotes = EmptyMap
    /\ pc = "start"
    /\ handlerInstalled = FALSE
    /\ PopInit
    /\ innerWidth = 1024
    /\ place = NoPlace /\ store = Missing /\ now = 0 /\ tracker = NoTracker
    /\ prefs = Missing /\ root = NoRoot
    /\ annStore \in {Missing, Corrupt}
    /\ uuids = 0
    /\ tabs = NoTabs

NextAnn ==
    \/ \E slug \in AnnSlugs : \E annotation \in Highlights(slug) : AddAnnotation(slug, annotation)
    \/ \E slug \in AnnSlugs \cup {"c"}, id \in 1..(MaxUuids + 1) : RemoveAnnotation(slug, id)
    \/ AnnClockTick

SpecAnn == InitAnn /\ [][NextAnn]_vars

(***************************************************************************)
(* Scroll tracking when a storage write can fail.  localStorage.setItem    *)
(* throws (QuotaExceededError) when the origin's quota is used up, which   *)
(* other keys and other tabs decide; saveHistory does not catch it, so the *)
(* exception leaves saveScrollPosition or markAsRead and ends the frame    *)
(* callback at that statement.                                             *)
(***************************************************************************)
\* whether a call of localStorage.setItem returns
SetItemOutcomes == BOOLEAN

\* what a frame callback did: the offset it read, the calls it made and
\* whether an exception ended it
FrameEvent(y, marks, threw) ==
    [ev |-> "frame", slug |-> PageSlug, arg |-> y, saves |-> 1, marks |-> marks,
     threw |-> threw]

\* the scroll listener: if (!ticking) { ticking = true; requestAnimationFrame(..) }
\* (pending counts the frame callbacks requested and not yet run)
OnScroll(y) ==
    /\ y # tracker.scrollY
    /\ tracker' = IF tracker.ticking
                  THEN [tracker EXCEPT !.scrollY = y]
                  ELSE [tracker EXCEPT !.scrollY = y, !.ticking = TRUE,
                                       !.pending = @ + 1]
    /\ last' = Call("scroll", PageSlug, y)
    /\ UNCHANGED <<engineVars, store, now, prefVars, annVars>>

\* the requestAnimationFrame callback; saveOk and markOk are the outcomes of
\* the setItem calls of saveScrollPosition and of markAsRead.
\* ticking = false is the last statement, reached only when nothing threw
FrameCallback(saveOk, markOk) ==
    /\ tracker.pending > 0
    /\ LET saved == saveScrollPosition(store, PageSlug, tracker.scrollY, now)
           past == PastNinetyPercent(tracker.scrollY, tracker.denom)
           threw == ~saveOk \/ (past /\ ~markOk)
       IN  /\ store' = IF ~saveOk THEN store
                       ELSE IF past /\ markOk
                            THEN markAsRead(saved, PageSlug, PageWordCount, now)
                            ELSE saved
           /\ tracker' = [tracker EXCEPT !.pending = @ - 1,
                                         !.ticking = IF threw THEN @ ELSE FALSE,
                                         !.maxY = Max(@, tracker.scrollY)]
           /\ last' = FrameEvent(tracker.scrollY, IF saveOk /\ past THEN 1 ELSE 0, threw)
    /\ UNCHANGED <<engineVars, now, prefVars, annVars>>

\* the browser runs a requested frame callback
FrameRuns == \E saveOk \in SetItemOutcomes, markOk \in SetItemOutcomes :
                 FrameCallback(saveOk, markOk)

InitTrack ==
    /\ dom0 = NoProse
    /\ prose = dom0
    /\ footnotes = EmptyMap
    /\ pc = "start"
    /\ handlerInstalled = FALSE
    /\ PopInit
    /\ innerWidth = 1024
    /\ place = NoPlace
    /\ store \in {Missing, Corrupt}
    /\ now = 0
    /\ tracker = [ticking |-> FALSE, scrollY |-> 0, denom |-> PageDenom, maxY |-> 0,
                  pending |-> 0]
    /\ prefs = Missing /\ root = NoRoot /\ annStore = Missing /\ uuids = 0
    /\ tabs = NoTabs

NextTrack ==
    \/ \E y \in ScrollYs : OnScroll(y)
    \/ FrameRuns
    \/ ClockTick

SpecTrack == InitTrack /\ [][NextTrack]_vars /\ WF_vars(FrameRuns)

\* the same page when every write succeeds
NextTrackWriting ==
    \/ \E y \in ScrollYs : OnScroll(y)
    \/ FrameCallback(TRUE, TRUE)
    \/ ClockTick

SpecTrackWriting ==
    InitTrack /\ [][NextTrackWriting]_vars /\ WF_vars(FrameCallback(TRUE, TRUE))

(***************************************************************************)
(* The two stores when the persisted item holds JSON that is no map.       *)
(* JSON.parse returns null, a primitive (number, boolean, string) or an    *)
(* array without throwing, so the catch of getHistory and getStore is not  *)
(* entered and the value is returned as it is.  The modules are ES modules *)
(* (strict mode): reading a property of null throws a TypeError, reading a *)
(* property of a primitive or a named property of an array gives           *)
(* undefined, assigning a property to a primitive throws a TypeError, and  *)
(* JSON.stringify of an array writes its elements only.  Document ids are  *)
(* not array indices.                                                      *)
(***************************************************************************)
JsonNull == [kind |-> "null"]
JsonList(items) == [kind |-> "list", items |-> items]

\* what the persisted item can hold when the page loads
StoredItems ==
    {Missing, Corrupt, JsonNull, Scalar, JsonList(<<>>), JsonList(<<"null">>),
     JsonList(<<"number">>), Json(EmptyMap)}

\* the value getHistory() and getStore() return for the stored item st:
\* {} for a missing item and for text that does not parse, else the parsed value
ParsedItem(st) == IF st.kind \in {"missing", "text"} THEN Json(EmptyMap) ELSE st

Threw(st) == [raised |-> TRUE, ret |-> <<>>, st |-> st]
Done(ret, st) == [raised |-> FALSE, ret |-> ret, st |-> st]

\* a call of an operation of reading-history.ts on the stored item st: whether
\* it raised, what it returned and the stored item afterwards
historyCall(op, st, slug, arg, t) ==
    LET v == ParsedItem(st)
    IN  CASE op = "getHistory" -> Done(v, st)
          [] v.kind = "null" -> Threw(st)
          [] op = "isRead" ->
                Done(IF v.kind = "json" THEN isRead(st, slug) ELSE FALSE, st)
          [] op = "getScrollPosition" ->
                Done(IF v.kind = "json" THEN getScrollPosition(st, slug) ELSE 0, st)
          [] op = "getStats" ->
                IF v.kind = "json" THEN Done(getStats(st), st)
                ELSE IF v.kind = "list" /\ \E i \in 1..Len(v.items) : v.items[i] = "null"
                     THEN Threw(st)
                     ELSE Done([essaysRead |-> 0, wordsRead |-> 0], st)
          [] op = "markAsRead" ->
                IF v.kind = "json" THEN Done(<<>>, markAsRead(st, slug, arg, t))
                ELSE IF v.kind = "scalar" THEN Threw(st)
                ELSE Done(<<>>, st)
          [] op = "saveScrollPosition" ->
                IF v.kind = "json" THEN Done(<<>>, saveScrollPosition(st, slug, arg, t))
                ELSE IF v.kind = "scalar" THEN Threw(st)
                ELSE Done(<<>>, st)

\* the same for annotations.ts
annotationCall(op, st, slug, arg, id, t) ==
    LET v == ParsedItem(st)
    IN  CASE op = "getStore" -> Done(v, st)
          [] v.kind = "null" -> Threw(st)
          [] op = "getAnnotations" ->
                Done(IF v.kind = "json" THEN getAnnotations(st, slug) ELSE <<>>, st)
          [] op = "addAnnotation" ->
                IF v.kind = "json"
                THEN Done(Full(arg, id, t), addAnnotation(st, slug, arg, id, t))
                ELSE IF v.kind = "scalar" THEN Threw(st)
                ELSE Done(Full(arg, id, t), st)
          [] op = "removeAnnotation" ->
                Done(<<>>, IF v.kind = "json" THEN removeAnnotation(st, slug, arg) ELSE st)

\* a call as the history variable records it
Outcome(op, from, out) == [ev |-> op, from |-> from, raised |-> out.raised, ret |-> out.ret]

HistoryOps ==
    {"getHistory", "isRead", "getScrollPosition", "getStats", "markAsRead",
     "saveScrollPosition"}

HistoryCall(op, slug, arg) ==
    /\ store' = historyCall(op, store, slug, arg, now).st
    /\ last' = Outcome(op, store.kind, historyCall(op, store, slug, arg, now))
    /\ UNCHANGED <<engineVars, now, tracker, prefVars, annVars>>

ReadAnnotations(op, slug) ==
    /\ last' = Outcome(op, annStore.kind, annotationCall(op, annStore, slug, <<>>, 0, now))
    /\ UNCHANGED <<notAnnVars, now, annVars>>

TryAddAnnotation(slug, annotation) ==
    /\ uuids < MaxUuids
    /\ LET out == annotationCall("addAnnotation", annStore, slug, annotation, uuids + 1, now)
       IN  /\ annStore' = out.st
           /\ uuids' = IF out.raised THEN uuids ELSE uuids + 1
           /\ last' = Outcome("addAnnotation", annStore.kind, out)
    /\ UNCHANGED <<notAnnVars, now>>

TryRemoveAnnotation(slug, id) ==
    /\ LET out == annotationCall("removeAnnotation", annStore, slug, id, 0, now)
       IN  /\ annStore' = out.st
           /\ last' = Outcome("removeAnnotation", annStore.kind, out)
    /\ UNCHANGED <<notAnnVars, now, uuids>>

InitLoad ==
    /\ dom0 = NoProse
    /\ prose = dom0
    /\ footnotes = EmptyMap
    /\ pc = "start"
    /\ handlerInstalled = FALSE
    /\ PopInit
    /\ innerWidth = 1024
    /\ place = NoPlace /\ now = 0 /\ tracker = NoTracker
    /\ prefs = Missing /\ root = NoRoot
    /\ store \in StoredItems
    /\ annStore \in StoredItems
    /\ uuids = 0
    /\ tabs = NoTabs

NextLoad ==
    \/ \E op \in HistoryOps, slug \in {PageSlug}, arg \in {PageWordCount} :
          HistoryCall(op, slug, arg)
    \/ \E op \in {"getStore", "getAnnotations"} : ReadAnnotations(op, PageSlug)
    \/ \E annotation \in Highlights(PageSlug) : TryAddAnnotation(PageSlug, annotation)
    \/ \E id \in 1..MaxUuids : TryRemoveAnnotation(PageSlug, id)

SpecLoad == InitLoad /\ [][NextLoad]_vars

(***************************************************************************)
(* exportAnnotations.  A string is a sequence of characters; a constant    *)
(* text of the program or a key (a slug, a colour, a field name) is one    *)
(* unit of its own that holds no character JSON escapes.  JSON values:     *)
(* strings, numbers, arrays and objects with their keys in insertion       *)
(* order.                                                                  *)
(***************************************************************************)
JStr(chars) == [type |-> "string", chars |-> chars]
JNum(n) == [type |-> "number", n |-> n]
JArr(items) == [type |-> "array", items |-> items]
JObj(keys, vals) == [type |-> "object", keys |-> keys, vals |-> vals]
JError == [type |-> "error"]

Quote == "\""
BackSlash == "\\"
NewLine == "\n"
DigitChars == <<"0", "1", "2", "3", "4", "5", "6", "7", "8", "9">>

\* the decimal digits of a number
RECURSIVE NumberToString(_)
NumberToString(n) ==
    IF n < 10 THEN <<DigitChars[n + 1]>>
    ELSE NumberToString(n \div 10) \o <<DigitChars[(n % 10) + 1]>>

\* a variant of EscapeChar that writes every character as it is
EscapeChar_Raw(c) == <<c>>

\* JSON.stringify of one character of a string
EscapeChar(c) ==
    IF c = Quote THEN <<BackSlash, Quote>>
    ELSE IF c = BackSlash THEN <<BackSlash, BackSlash>>
    ELSE IF c = NewLine THEN <<BackSlash, "n">>
    ELSE <<c>>

Quoted(chars) ==
    <<Quote>> \o ConcatAll([i \in 1..Len(chars) |-> EscapeChar(chars[i])]) \o <<Quote>>

Spaces(n) == [i \in 1..n |-> " "]

\* JSON.stringify(value, null, 2) at nesting depth d
RECURSIVE stringify(_, _)
stringify(v, d) ==
    CASE v.type = "string" -> Quoted(v.chars)
      [] v.type = "number" -> NumberToString(v.n)
      [] v.type = "array" ->
            IF v.items = <<>> THEN <<"[", "]">>
            ELSE <<"[">>
                 \o ConcatAll([i \in 1..Len(v.items) |->
                        <<NewLine>> \o Spaces(2 * (d + 1)) \o stringify(v.items[i], d + 1)
                        \o (IF i < Len(v.items) THEN <<",">> ELSE <<>>)])
                 \o <<NewLine>> \o Spaces(2 * d) \o <<"]">>
      [] v.type = "object" ->
            IF v.keys = <<>> THEN <<"{", "}">>
            ELSE <<"{">>
                 \o ConcatAll([i \in 1..Len(v.keys) |->
                        <<NewLine>> \o Spaces(2 * (d + 1)) \o Quoted(v.keys[i])
                        \o <<":", " ">> \o stringify(v.vals[i], d + 1)
                        \o (IF i < Len(v.keys) THEN <<",">> ELSE <<>>)])
                 \o <<NewLine>> \o Spaces(2 * d) \o <<"}">>

\* JSON.parse, reading the text s from position i; the result is the value
\* and the position after it.  Text that is not JSON gives JError.
CharAt(s, i) == IF i <= Len(s) THEN s[i] ELSE "EOF"
Parse(val, pos) == [val |-> val, pos |-> pos]

RECURSIVE SkipWhiteSpace(_, _)
SkipWhiteSpace(s, i) ==
    IF CharAt(s, i) \in {" ", NewLine} THEN SkipWhiteSpace(s, i + 1) ELSE i

RECURSIVE ParseString(_, _, _)
ParseString(s, i, acc) ==
    LET c == CharAt(s, i)
    IN  IF c = "EOF" THEN Parse(JError, i)
        ELSE IF c = Quote THEN Parse(JStr(acc), i + 1)
        ELSE IF c = BackSlash
             THEN LET e == CharAt(s, i + 1)
                  IN  IF e \in {Quote, BackSlash}
                      THEN ParseString(s, i + 2, Append(acc, e))
                      ELSE IF e = "n" THEN ParseString(s, i + 2, Append(acc, NewLine))
                      ELSE Parse(JError, i)
        ELSE IF c = NewLine THEN Parse(JError, i)
        ELSE ParseString(s, i + 1, Append(acc, c))

RECURSIVE ParseNumber(_, _, _)
ParseNumber(s, i, n) ==
    IF CharAt(s, i) \in Digits
    THEN ParseNumber(s, i + 1,
                     10 * n + (CHOOSE k \in 0..9 : DigitChars[k + 1] = CharAt(s, i)))
    ELSE Parse(JNum(n), i)

RECURSIVE ParseValue(_, _)
RECURSIVE ParseItems(_, _, _)
RECURSIVE ParseMembers(_, _, _, _)

\* the elements of an array, from the position after "[" or after ","
ParseItems(s, i, acc) ==
    LET r == ParseValue(s, SkipWhiteSpace(s, i))
        j == SkipWhiteSpace(s, r.pos)
    IN  IF r.val = JError THEN r
        ELSE IF CharAt(s, j) = "," THEN ParseItems(s, j + 1, Append(acc, r.val))
        ELSE IF CharAt(s, j) = "]" THEN Parse(JArr(Append(acc, r.val)), j + 1)
        ELSE Parse(JError, j)

\* the members of an object, from the position after "{" or after ","
ParseMembers(s, i, keys, vals) ==
    LET k == SkipWhiteSpace(s, i)
        key == IF CharAt(s, k) = Quote THEN ParseString(s, k + 1, <<>>)
               ELSE Parse(JError, k)
        colon == SkipWhiteSpace(s, key.pos)
        r == ParseValue(s, SkipWhiteSpace(s, colon + 1))
        j == SkipWhiteSpace(s, r.pos)
    IN  IF key.val = JError \/ CharAt(s, colon) # ":" THEN Parse(JError, k)
        ELSE IF r.val = JError THEN r
        ELSE IF CharAt(s, j) = ","
             THEN ParseMembers(s, j + 1, Append(keys, key.val.chars), Append(vals, r.val))
        ELSE IF CharAt(s, j) = "}"
             THEN Parse(JObj(Append(keys, key.val.chars), Append(vals, r.val)), j + 1)
        ELSE Parse(JError, j)

ParseValue(s, i) ==
    LET c == CharAt(s, i)
    IN  IF c = Quote THEN ParseString(s, i + 1, <<>>)
        ELSE IF c \in Digits THEN ParseNumber(s, i, 0)
        ELSE IF c = "[" THEN
             IF CharAt(s, SkipWhiteSpace(s, i + 1)) = "]"
             THEN Parse(JArr(<<>>), SkipWhiteSpace(s, i + 1) + 1)
             ELSE ParseItems(s, i + 1, <<>>)
        ELSE IF c = "{" THEN
             IF CharAt(s, SkipWhiteSpace(s, i + 1)) = "}"
             THEN Parse(JObj(<<>>, <<>>), SkipWhiteSpace(s, i + 1) + 1)
             ELSE ParseMembers(s, i + 1, <<>>, <<>>)
        ELSE Parse(JError, i)

\* JSON.parse(s): the whole text is one value
parse(s) ==
    LET r == ParseValue(s, SkipWhiteSpace(s, 1))
    IN  IF r.val # JError /\ SkipWhiteSpace(s, r.pos) = Len(s) + 1 THEN r.val ELSE JError

\* the annotation store as a JSON value.  The keys of a record are in the
\* order of { ...annotation, id, createdAt }; the documents are in the order
\* SlugOrder; the n-th identifier and the time t stand for their texts.
AnnotationFields ==
    <<"essaySlug", "text", "color", "startOffset", "endOffset", "parentSelector", "id",
      "createdAt">>
SlugOrder == <<"a", "b">>

Unit(text) == IF text = "" THEN <<>> ELSE <<text>>

FieldValue(f, x) ==
    IF f \in {"startOffset", "endOffset"} THEN JNum(x)
    ELSE IF f = "text" THEN JStr(x)
    ELSE IF f = "id" THEN JStr(<<"uuid-">> \o NumberToString(x))
    ELSE IF f = "createdAt" THEN JStr(<<"T">> \o NumberToString(x))
    ELSE JStr(Unit(x))

RecordValue(a) ==
    JObj([i \in 1..Len(AnnotationFields) |-> <<AnnotationFields[i]>>],
         [i \in 1..Len(AnnotationFields) |-> FieldValue(AnnotationFields[i], a[AnnotationFields[i]])])

StoreValue(annotations) ==
    LET slugs == SelectSeq(SlugOrder, LAMBDA s : s \in DOMAIN annotations)
    IN  JObj([i \in 1..Len(slugs) |-> <<slugs[i]>>],
             [i \in 1..Len(slugs) |->
                 JArr([k \in 1..Len(annotations[slugs[i]]) |->
                         RecordValue(annotations[slugs[i]][k])])])

\* new Date(a.createdAt).toLocaleDateString(): the day of the time, in the
\* notation of the locale
LocaleDate(t) == <<"day ">> \o NumberToString(t)

\* the text digest: a header, then per document a heading and per highlight
\* its quoted text and its colour tag with the date
TextDigest(annotations) ==
    LET slugs == SelectSeq(SlugOrder, LAMBDA s : s \in DOMAIN annotations)
    IN  <<"Paul Graham Essays - My Highlights", NewLine, NewLine>>
        \o ConcatAll([i \in 1..Len(slugs) |->
              <<"## ", slugs[i], NewLine, NewLine>>
              \o ConcatAll([k \in 1..Len(annotations[slugs[i]]) |->
                    LET a == annotations[slugs[i]][k]
                    IN  <<"> ">> \o a.text \o <<NewLine, "  [", a.color, "] - ">>
                        \o LocaleDate(a.createdAt) \o <<NewLine, NewLine>>])])

\* getAllAnnotations(): the store
getAllAnnotations(st) == getStore(st)

\* exportAnnotations(format): the string it returns
exportAnnotations(st, format) ==
    IF format = "json" THEN stringify(StoreValue(getStore(st)), 0)
    ELSE TextDigest(getStore(st))

ExportAnnotations(format) ==
    /\ last' = Returned("exportAnnotations", format, exportAnnotations(annStore, format))
    /\ UNCHANGED <<notAnnVars, now, annVars>>

\* the records passed to addAnnotation: a plain text, and a text with a
\* quote, a backslash and a line break
ExportHighlights(slug) ==
    {[essaySlug |-> slug, text |-> <<"x">>, color |-> "yellow", startOffset |-> 0,
      endOffset |-> 0, parentSelector |-> ""],
     [essaySlug |-> slug, text |-> <<"a", Quote, BackSlash, NewLine, "]">>, color |-> "pink",
      startOffset |-> 7, endOffset |-> 12, parentSelector |-> "p"]}

NextExport ==
    \/ \E slug \in AnnSlugs :
          \E annotation \in ExportHighlights(slug) : AddAnnotation(slug, annotation)
    \/ \E slug \in AnnSlugs, id \in 1..MaxUuids : RemoveAnnotation(slug, id)
    \/ \E format \in {"json", "text"} : ExportAnnotations(format)

SpecExport == InitAnn /\ [][NextExport]_vars

(***************************************************************************)
(* Two tabs of the origin.  Each tab runs its scripts on its own, one call *)
(* at a time; what the tabs share is localStorage.  A store operation is a *)
(* getItem of the whole item, a change of the parsed value and a setItem   *)
(* of the whole item; setItem replaces the item in one step.  The getItem  *)
(* and the setItem of one tab's call can have the other tab's between them.*)
(***************************************************************************)
HISTORY_KEY == "pg-reading-history"
AnnotationsKey == "pg-annotations"
SettingsKey == "pg-reader-settings"
StorageKeys == {HISTORY_KEY, AnnotationsKey, SettingsKey}

\* the item localStorage holds under a key
Item(key) ==
    CASE key = HISTORY_KEY -> store
      [] key = AnnotationsKey -> annStore
      [] key = SettingsKey -> prefs

\* a variant of getItem that finds nothing
getItem_Nothing(key) == Missing

\* localStorage.getItem(key)
getItem(key) == Item(key)

\* the calls a tab makes on the item of a key
TabCall(op, slug, arg) == [op |-> op, slug |-> slug, arg |-> arg]
TabCalls(key) ==
    CASE key = HISTORY_KEY ->
            {TabCall("markAsRead", "a", 3), TabCall("markAsRead", "b", 5),
             TabCall("saveScrollPosition", "a", 7)}
      [] key = AnnotationsKey ->
            {TabCall("addAnnotation", slug, annotation) :
                slug \in AnnSlugs, annotation \in {CHOOSE h \in Highlights("a") : h.text = "x"}}
            \cup {TabCall("removeAnnotation", "a", 1)}
      [] key = SettingsKey ->
            {TabCall("cycleTheme", "", 0), TabCall("adjustFontSize", "", 1)}

\* whether the call reaches its setItem, given the item it read:
\* removeAnnotation writes only when the document has a list
Writes(call, snapshot) ==
    call.op = "removeAnnotation" => call.slug \in DOMAIN getStore(snapshot)

\* the item the call passes to setItem, given the item it read
Written(call, snapshot, id, t) ==
    CASE call.op = "markAsRead" -> markAsRead(snapshot, call.slug, call.arg, t)
      [] call.op = "saveScrollPosition" -> saveScrollPosition(snapshot, call.slug, call.arg, t)
      [] call.op = "addAnnotation" -> addAnnotation(snapshot, call.slug, call.arg, id, t)
      [] call.op = "removeAnnotation" -> removeAnnotation(snapshot, call.slug, call.arg)
      [] call.op = "cycleTheme" -> Json(cycleTheme(snapshot))
      [] call.op = "adjustFontSize" -> Json(adjustFontSize(snapshot, call.arg))

\* the variables of the one page the other sections describe
pageVars == <<domVars, innerWidth, activeTooltip, activeSheet, backdrop, body, docClick,
              docKeydown, attachTimers, removeTimers, transitionEnd, frames, touch,
              style, opens, place, tracker, root, now>>

\* the tab t starts a call on the item of key: getItem and JSON.parse
TabReads(t, key, call) ==
    /\ tabs.call[t].pc = "idle"
    /\ tabs.ns \in {"none", key}
    /\ tabs' = [tabs EXCEPT !.ns = key,
                            !.initial = IF tabs.ns = "none" THEN Item(key) ELSE @,
                            !.call[t] = [pc |-> "read", call |-> call,
                                         snapshot |-> getItem(key), id |-> uuids + 1]]
    /\ uuids' = IF call.op = "addAnnotation" THEN uuids + 1 ELSE uuids
    /\ last' = [ev |-> "tabRead", tab |-> t]
    /\ UNCHANGED <<pageVars, store, annStore, prefs>>

\* the tab t finishes its call: setItem of the whole changed value (and, for
\* the settings, applySettings on the tab's own document)
TabWrites(t) ==
    /\ tabs.call[t].pc = "read"
    /\ LET c == tabs.call[t]
           writes == Writes(c.call, c.snapshot)
           item == Written(c.call, c.snapshot, c.id, now)
       IN  /\ store' = IF writes /\ tabs.ns = HISTORY_KEY THEN item ELSE store
           /\ annStore' = IF writes /\ tabs.ns = AnnotationsKey THEN item ELSE annStore
           /\ prefs' = IF writes /\ tabs.ns = SettingsKey THEN item ELSE prefs
           /\ tabs' = [tabs EXCEPT !.call[t].pc = "done",
                                   !.writes = IF writes THEN Append(@, t) ELSE @]
           /\ last' = [ev |-> "tabWrite", tab |-> t, wrote |-> writes]
    /\ UNCHANGED <<pageVars, uuids>>

\* what the three items hold before the calls
InitTabs ==
    /\ dom0 = NoProse
    /\ prose = dom0
    /\ footnotes = EmptyMap
    /\ pc = "start"
    /\ handlerInstalled = FALSE
    /\ PopInit
    /\ innerWidth = 1024
    /\ place = NoPlace /\ now = 0 /\ tracker = NoTracker /\ root = NoRoot
    /\ store \in {Missing, saveScrollPosition(Missing, "b", 7, 0)}
    /\ annStore \in {Missing,
                     addAnnotation(Missing, "a", CHOOSE h \in Highlights("a") : h.text = "y", 1, 0)}
    /\ prefs \in {Missing, Json([theme |-> "tan"])}
    /\ uuids = 1
    /\ tabs = NoTabs

NextTabs ==
    \/ \E t \in Tabs, key \in StorageKeys : \E call \in TabCalls(key) : TabReads(t, key, call)
    \/ \E t \in Tabs : TabWrites(t)

SpecTabs == InitTabs /\ [][NextTabs]_vars

(***************************************************************************)
(* The three stores of one page together: the calls of the reading         *)
(* history, of the annotations and of the reader settings in any order.    *)
(***************************************************************************)
InitStores ==
    /\ dom0 = NoProse
    /\ prose = dom0
    /\ footnotes = EmptyMap
    /\ pc = "start"
    /\ handlerInstalled = FALSE
    /\ PopInit
    /\ innerWidth = 1024
    /\ place = NoPlace /\ now = 0 /\ tracker = NoTracker /\ root = NoRoot
    /\ store \in {Missing, Corrupt}
    /\ annStore \in {Missing, Corrupt}
    /\ prefs = Missing
    /\ uuids = 0
    /\ tabs = NoTabs

NextStores ==
    \/ \E slug \in Slugs : MarkAsRead(slug, PageWordCount)
    \/ \E slug \in Slugs : SaveScrollPosition(slug, 7)
    \/ \E slug \in AnnSlugs :
          AddAnnotation(slug, CHOOSE h \in Highlights(slug) : h.text = "x")
    \/ \E slug \in AnnSlugs, id \in 1..MaxUuids : RemoveAnnotation(slug, id)
    \/ CycleTheme
    \/ AdjustFontSize(1)
    \/ InitSettings

SpecStores == InitStores /\ [][NextStores]_vars

(***************************************************************************)
(* Claims about the popover engine.                                        *)
(***************************************************************************)
Popovers == {e \in body : e.kind \in {"tooltip", "sheet"}}
Backdrops == {e \in body : e.kind = "backdrop"}
Opening == opens' = opens + 1

\* C1: the document holds at most one popover (a tooltip, or a sheet with its
\* backdrop) in every state, so that an activation leaves exactly one.
C1_AtMostOnePopover ==
    /\ Cardinality(Popovers) <= 1
    /\ Cardinality(Backdrops) <= 1

\* C1, the tooltip half: an activation removes the open tooltip from the
\* document in the same step.
C1_TooltipCancelledOutright ==
    [][Opening /\ activeTooltip # Null => activeTooltip \notin body']_vars

\* a sheet is opened while the sheet of an earlier activation is in the document
C1_TwoSheets ==
    /\ activeSheet # Null
    /\ \E e \in body : e.kind = "sheet" /\ e # activeSheet

HandlesDescribeOnePopover ==
    /\ ~(activeTooltip # Null /\ activeSheet # Null)
    /\ backdrop # Null <=> activeSheet # Null
    /\ activeTooltip # Null => activeTooltip.kind = "tooltip"
    /\ activeSheet # Null => activeSheet.kind = "sheet" /\ backdrop.kind = "backdrop"

\* an opening step leaves no handle of the popover that was open before it: the
\* handles that are set are those of the elements this step created
DismissThenCreate ==
    Opening =>
        /\ activeTooltip' # Null => activeTooltip'.id = opens' /\ activeSheet' = Null
                                    /\ backdrop' = Null
        /\ activeSheet' # Null => activeSheet'.id = opens' /\ backdrop'.id = opens'
                                  /\ activeTooltip' = Null
        /\ activeTooltip' # Null \/ activeSheet' # Null

\* C2: activeTooltip and activeSheet are never both set, backdrop is set
\* exactly when activeSheet is, and showTooltip and showBottomSheet reset all
\* three handles before they set their own.
C2_HandlesDescribeOnePopover ==
    []HandlesDescribeOnePopover /\ [][DismissThenCreate]_vars

\* a sheet was opened while the tooltip of the activation before it had not
\* yet attached its listeners
C2_Witness ==
    /\ activeSheet # Null /\ activeSheet.id = 2
    /\ backdrop # Null
    /\ attachTimers > 0

\* the three cases in which initFootnotes finds nothing to do, read off the
\* rendered document
NothingToDo ==
    \/ dom0 = NoProse
    \/ NotesSections(dom0) = <<>>
    \/ DOMAIN parseFootnotes(dom0) = {}

NothingDone ==
    /\ prose = dom0
    /\ ~handlerInstalled
    /\ opens = 0
    /\ body = {}
    /\ activeTooltip = Null /\ activeSheet = Null /\ backdrop = Null

\* C8: with no prose container, no notes region or no definition,
\* initFootnotes changes nothing, installs no click handler, and no popover is
\* ever opened.
C8_NothingToDoNothingDone == [](NothingToDo => NothingDone)

\* initFootnotes has returned on a page that cites [1] and [2] and has a
\* notes block without a definition, and events have been delivered since
C8_Witness ==
    /\ pc = "exit"
    /\ dom0 # NoProse
    /\ NotesSections(dom0) # <<>>
    /\ MarkerNums(TextContent(dom0.kids[1])) # <<>>
    /\ innerWidth = 767

\* the popover an activation opens, by the width at that moment
OpensByWidth ==
    Opening =>
        IF innerWidth < 768
        THEN activeSheet' # Null /\ activeSheet'.kind = "sheet" /\ activeTooltip' = Null
        ELSE activeTooltip' # Null /\ activeTooltip'.kind = "tooltip" /\ activeSheet' = Null

\* the popover of the other kind that is open at an activation is dismissed by
\* it: a tooltip has left the document, a sheet has started its exit
OtherKindDismissed ==
    Opening =>
        /\ innerWidth < 768 /\ activeTooltip # Null => activeTooltip \notin body'
        /\ innerWidth >= 768 /\ activeSheet # Null =>
              /\ activeSheet' = Null /\ backdrop' = Null
              /\ activeSheet \in removeTimers' /\ backdrop \in removeTimers'
              /\ style'[activeSheet] = TranslateYPercent(100)
              /\ style'[backdrop] = Opacity(0)

\* C10: the mode is decided at each activation from the width at that moment,
\* width < 768 opens the sheet and width >= 768 the tooltip, and the open
\* popover of the other kind is dismissed.
C10_ModeDecidedAtActivation == [][OpensByWidth /\ OtherKindDismissed]_vars

\* at width exactly 768 a tooltip is open that was opened after a sheet, which
\* is still leaving the document: the window was resized in between
C10_Witness ==
    /\ innerWidth = 768
    /\ activeTooltip # Null /\ activeTooltip.id = 2
    /\ \E e \in body : e.kind = "sheet" /\ e.id = 1

(***************************************************************************)
(* Claims about the dismissal triggers.                                    *)
(***************************************************************************)
Closed == activeTooltip = Null /\ activeSheet = Null /\ backdrop = Null
PopoverKept == UNCHANGED <<activeTooltip, activeSheet, backdrop, body, docClick, docKeydown>>

Escape == last'.ev = "keydown" /\ last'.key = "Escape"
OtherKey == last'.ev = "keydown" /\ last'.key # "Escape"
ClickOutsideTooltip ==
    \/ last'.ev = "clickElsewhere"
    \/ last'.ev \in {"clickPopover", "clickBackdrop"} /\ last'.el # activeTooltip
ClickInsideTooltip == last'.ev = "clickPopover" /\ last'.el = activeTooltip
ClickOnBackdrop == last'.ev = "clickBackdrop" /\ last'.el = backdrop

\* the triggers of the sheet, and the events that keep a popover open
SheetTriggersAndNonTriggers ==
    /\ activeSheet # Null /\ (ClickOnBackdrop \/ Escape) => Closed'
    /\ activeTooltip # Null /\ ClickInsideTooltip => PopoverKept
    /\ OtherKey => PopoverKept

\* C11: an open tooltip is closed (all handles null) by a click outside it and
\* by Escape, an open sheet by a click on its backdrop and by Escape; a click
\* inside the tooltip and any other key leave the popover open.
C11_TriggersDismiss ==
    [][/\ activeTooltip # Null /\ (ClickOutsideTooltip \/ Escape) => Closed'
       /\ SheetTriggersAndNonTriggers]_vars

\* C11, what the code guarantees: the triggers of a tooltip dismiss it once
\* the zero-delay timer of showTooltip has attached the document listeners.
C11_DismissedOnceListening ==
    [][/\ activeTooltip # Null /\ docClick /\ ClickOutsideTooltip => Closed'
       /\ activeTooltip # Null /\ docKeydown /\ Escape => Closed'
       /\ SheetTriggersAndNonTriggers]_vars

\* Escape has been pressed while a tooltip was open and the tooltip is still
\* open
C11_EscapeIgnored ==
    /\ activeTooltip # Null
    /\ last = Event("keydown", Null, "Escape")

(***************************************************************************)
(* Claims about the drag gesture of the bottom sheet.                      *)
(***************************************************************************)
\* the open sheet has been dismissed by this step: the handles are cleared,
\* its exit has started and its removal is scheduled
SheetDismissed(el, bd) ==
    /\ Closed'
    /\ style'[el] = TranslateYPercent(100)
    /\ style'[bd] = Opacity(0)
    /\ el \in removeTimers' /\ bd \in removeTimers'

\* the open sheet is still open after this step, at its open position
SheetSprungBack(el) ==
    /\ activeSheet' = el
    /\ backdrop' = backdrop
    /\ {el, backdrop} \subseteq body'
    /\ style'[el] = TranslateYPx(0)

\* C12: at touch end on the open sheet a drag of more than 80 px downwards
\* (last touch Y minus start Y) dismisses the sheet; a drag of 80 px or less,
\* an upward drag and a tap leave it open with its offset reset to
\* translateY(0).
C12_DragThreshold ==
    [][last'.ev = "touchend" /\ last'.el = activeSheet =>
          IF last'.dy > 80 THEN SheetDismissed(activeSheet, backdrop)
                           ELSE SheetSprungBack(activeSheet)]_vars

\* a drag of exactly 80 px has ended on the open sheet, which is open at its
\* open position
C12_Witness ==
    /\ last.ev = "touchend" /\ last.dy = 80
    /\ activeSheet = last.el
    /\ style[activeSheet] = TranslateYPx(0)

\* a drag of 81 px has ended and the sheet it ended on is leaving
C12_WitnessDismissed ==
    /\ last.ev = "touchend" /\ last.dy = 81
    /\ activeSheet = Null
    /\ last.el \in body /\ style[last.el] = TranslateYPercent(100)

(***************************************************************************)
(* Claims about the placement of the tooltip.                              *)
(***************************************************************************)
Placed == place.state = "placed"

\* C13: with control top T, bottom B and tooltip height H the tooltip top is
\* T - H - 8 when that is at least 8 and B + 8 otherwise; the tooltip is never
\* placed above the control with its top less than 8 px from the viewport top.
C13_VerticalPlacement ==
    Placed =>
        LET above == place.rect.top - place.tRect.height - 8
        IN  /\ above >= 8 => place.top = above
            /\ above < 8 => place.top = place.rect.bottom + 8
            /\ place.top < place.rect.top => place.top >= 8

\* a tooltip has been placed above its control, exactly 8 px from the top
C13_Witness == Placed /\ place.top = 8 /\ place.rect.top = 32

\* the tooltip lies inside the margins and is centred when the centred
\* position lies inside them
InsideMargins ==
    LET centred2 == 2 * place.rect.left + place.rect.width - place.tRect.width
        fits(l2) == l2 >= 16 /\ l2 + 2 * place.tRect.width <= 2 * (place.W - 8)
    IN  /\ fits(place.left2)
        /\ fits(centred2) => place.left2 = centred2

\* C14 as stated: for every control position, tooltip width w and viewport
\* width W the computed left satisfies left >= 8 and left + w <= W - 8, and is
\* the centred value whenever that lies in this range.
C14_NeverOverflows == Placed => InsideMargins

\* C14 (amended): when the tooltip fits between the margins (w <= W - 16) the
\* computed left satisfies left >= 8 and left + w <= W - 8 and is the centred
\* value whenever that lies in this range; when it does not fit, left is 8 and
\* the tooltip extends past the right margin.
C14_InsideMarginsWhenItFits ==
    Placed =>
        IF place.tRect.width <= place.W - 16
        THEN InsideMargins
        ELSE place.left2 = 16 /\ place.left2 + 2 * place.tRect.width > 2 * (place.W - 8)

\* a tooltip that fits has been clamped at the right margin
C14_Witness ==
    /\ Placed
    /\ place.left2 + 2 * place.tRect.width = 2 * (place.W - 8)
    /\ 2 * place.rect.left + place.rect.width - place.tRect.width > place.left2

(***************************************************************************)
(* Claims about activations that resolve to no definition.                 *)
(***************************************************************************)
\* C15: activating an element whose footnote number is empty or has no entry
\* in the Definition Map opens no popover and leaves an open popover, its
\* handles, its elements and the document listeners as they were.
C15_UnknownNumberIsNoOp ==
    [][last'.ev = "clickOrphan" =>
          UNCHANGED <<activeTooltip, activeSheet, backdrop, body, style, docClick,
                      docKeydown, attachTimers, removeTimers, transitionEnd, frames,
                      opens>>]_vars

\* an element with an undefined number has been activated while a tooltip was
\* open with its listeners attached, and the tooltip is still open
C15_Witness ==
    /\ last.ev = "clickOrphan"
    /\ activeTooltip # Null /\ activeTooltip \in body
    /\ docClick /\ docKeydown

(***************************************************************************)
(* Claims about the reading history.                                       *)
(***************************************************************************)

\* C16: the read flag is sticky: once isRead(slug) is true it is true after
\* every later call of saveScrollPosition and markAsRead on any document and
\* after every later scroll frame, whatever the scroll fraction.
C16_ReadIsSticky ==
    [][\A slug \in Slugs : isRead(store, slug) => isRead(store', slug)]_vars

\* the page is read and a frame at fraction 2/20 has just stored its offset
C16_Witness ==
    /\ last = Call("frame", PageSlug, 2)
    /\ isRead(store, PageSlug)
    /\ getScrollPosition(store, PageSlug) = 2

\* C17: for a document that only its scroll tracking marks read, isRead is
\* false while every processed frame had offset / scrollable height at most
\* 9/10 and true once a processed frame had a larger fraction; every
\* processed frame stores the current offset, marking or not.
C17_ReadDerivedFromScrolling ==
    /\ isRead(store, PageSlug) <=> 10 * tracker.maxY > 9 * PageDenom
    /\ last.ev = "frame" => getScrollPosition(store, PageSlug) = last.arg

\* the first frame past nine tenths: the previous frames stopped at 18/20
C17_Witness ==
    /\ last = Call("frame", PageSlug, 19)
    /\ isRead(store, PageSlug)
    /\ getScrollPosition(store, PageSlug) = 19

\* a frame at exactly nine tenths has stored its offset and left the page unread
C17_WitnessBoundary ==
    /\ last = Call("frame", PageSlug, 18)
    /\ ~isRead(store, PageSlug)
    /\ getScrollPosition(store, PageSlug) = 18

\* the records of slug in two stored items agree on every field but lastReadAt,
\* and the records of the other slugs are the same
SameButLastReadAt(st1, st2, slug) ==
    LET h1 == getHistory(st1)
        h2 == getHistory(st2)
    IN  /\ DOMAIN h1 = DOMAIN h2
        /\ \A other \in DOMAIN h1 \ {slug} : h1[other] = h2[other]
        /\ slug \in DOMAIN h1 =>
              /\ DOMAIN h1[slug] = DOMAIN h2[slug]
              /\ \A f \in DOMAIN h1[slug] \ {"lastReadAt"} : h1[slug][f] = h2[slug][f]

\* what every call of markAsRead(slug, wordCount) does to the record of slug
MarkedAsRead(slug, wordCount) ==
    /\ isRead(store', slug)
    /\ HasField(getHistory(store'), slug, "wordCount")
    /\ getHistory(store')[slug].wordCount = wordCount
    /\ getScrollPosition(store', slug) = getScrollPosition(store, slug)
    /\ HasField(getHistory(store'), slug, "scrollPosition")
          <=> HasField(getHistory(store), slug, "scrollPosition")

\* a step that is a call of markAsRead(slug, wordCount): the clock stands still
MarkAsReadStep(slug, wordCount) ==
    last' = Call("markAsRead", slug, wordCount) /\ now' = now

\* C18 as stated: markAsRead(slug, wordCount) sets read = true and the given
\* word count whatever the record was, keeps the scroll offset, and a second
\* call with the same arguments leaves the stored history as the first left it.
C18_SecondCallChangesNothing ==
    [][\A slug \in Slugs, wordCount \in WordCounts :
          MarkAsReadStep(slug, wordCount) =>
              /\ MarkedAsRead(slug, wordCount)
              /\ last = Call("markAsRead", slug, wordCount) => store' = store]_vars

\* C18 as amended: the second call changes nothing but the record's lastReadAt,
\* which becomes the time of the second call.
C18_SecondCallRefreshesLastReadAt ==
    [][\A slug \in Slugs, wordCount \in WordCounts :
          MarkAsReadStep(slug, wordCount) =>
              /\ MarkedAsRead(slug, wordCount)
              /\ getHistory(store')[slug].lastReadAt = now
              /\ last = Call("markAsRead", slug, wordCount) =>
                    SameButLastReadAt(store, store', slug)]_vars

\* markAsRead has marked a record that had a scroll offset, after the clock moved
C18_Witness ==
    /\ last = Call("markAsRead", PageSlug, 5)
    /\ getHistory(store)[PageSlug] =
          [scrollPosition |-> 7, read |-> TRUE, lastReadAt |-> 1, wordCount |-> 5]

\* a step that is a call of saveScrollPosition(slug, position)
SaveScrollPositionStep(slug, position) ==
    last' = Call("saveScrollPosition", slug, position) /\ now' = now

\* the stored record of slug has this read flag and this word count
HasReadAndWordCount(st, slug, read, wordCount) ==
    /\ HasField(getHistory(st), slug, "read")
    /\ getHistory(st)[slug].read = read
    /\ HasField(getHistory(st), slug, "wordCount")
    /\ getHistory(st)[slug].wordCount = wordCount

\* C19: saveScrollPosition(slug, position) upserts: afterwards
\* getScrollPosition(slug) returns position; an existing record keeps its read
\* flag and word count, a new record has read = false and wordCount = 0; and
\* getScrollPosition of a document with no record returns 0.
C19_SaveScrollPositionUpserts ==
    [][/\ \A slug \in Slugs :
             slug \notin DOMAIN getHistory(store') => getScrollPosition(store', slug) = 0
       /\ \A slug \in Slugs, position \in Positions :
             SaveScrollPositionStep(slug, position) =>
                 /\ getScrollPosition(store', slug) = position
                 /\ IF slug \in DOMAIN getHistory(store)
                    THEN HasReadAndWordCount(store', slug, getHistory(store)[slug].read,
                                             getHistory(store)[slug].wordCount)
                    ELSE HasReadAndWordCount(store', slug, FALSE, 0)]_vars

\* an offset has been saved into a read record, which kept its flag and word
\* count, while the other document has no record
C19_Witness ==
    /\ last = Call("saveScrollPosition", "b", 7)
    /\ getScrollPosition(store, "b") = 7
    /\ HasReadAndWordCount(store, "b", TRUE, 5)
    /\ PageSlug \notin DOMAIN getHistory(store)
    /\ getScrollPosition(store, PageSlug) = 0

\* an offset has been saved for a document that had no record
C19_WitnessNewRecord ==
    /\ last = Call("saveScrollPosition", "b", 7)
    /\ getHistory(store) = [b |-> [scrollPosition |-> 7, read |-> FALSE,
                                   lastReadAt |-> 1, wordCount |-> 0]]

\* the number of read records among the slugs of S, and the sum of their
\* word counts, counted from the stored history one slug at a time
RECURSIVE ReadCount(_, _)
ReadCount(st, S) ==
    IF S = {} THEN 0
    ELSE LET slug == CHOOSE x \in S : TRUE
         IN  ReadCount(st, S \ {slug}) + (IF isRead(st, slug) THEN 1 ELSE 0)

RECURSIVE ReadWords(_, _)
ReadWords(st, S) ==
    IF S = {} THEN 0
    ELSE LET slug == CHOOSE x \in S : TRUE
         IN  ReadWords(st, S \ {slug}) +
                 (IF isRead(st, slug) THEN getHistory(st)[slug].wordCount ELSE 0)

\* C20: after any sequence of markAsRead and saveScrollPosition calls,
\* getStats() returns essaysRead = the number of records with read = true and
\* wordsRead = the sum of the word counts of exactly those records.
C20_StatsCountReadRecords ==
    /\ getStats(store).essaysRead = Cardinality({slug \in Slugs : isRead(store, slug)})
    /\ getStats(store).essaysRead = ReadCount(store, Slugs)
    /\ getStats(store).wordsRead = ReadWords(store, Slugs)

\* one record is read with 5 words, the other has an offset and is unread
C20_Witness ==
    /\ isRead(store, "b") /\ getHistory(store)["b"].wordCount = 5
    /\ PageSlug \in DOMAIN getHistory(store)
    /\ ~isRead(store, PageSlug) /\ getScrollPosition(store, PageSlug) = 7
    /\ getStats(store) = [essaysRead |-> 1, wordsRead |-> 5]

\* both records are read
C20_WitnessBoth ==
    getStats(store) = [essaysRead |-> 2, wordsRead |-> 8]

(***************************************************************************)
(* Claims about the reader settings.                                       *)
(***************************************************************************)

\* the stored item is the text of a record
StoredRecord == prefs.kind = "json"

\* what loadSettings returns when nothing usable is stored
FallsBackToDefaults ==
    prefs.kind \in {"missing", "text"} =>
        loadSettings(prefs) =
            [theme |-> "white", fontFamily |-> "sans", fontSize |-> 2, lineHeight |-> 1,
             contentWidth |-> "medium"]

\* field f of the record loadSettings returns is the stored value, or the
\* default when the stored record has no field f
FilledOrKept(f) ==
    loadSettings(prefs)[f] = IF f \in DOMAIN prefs.map THEN prefs.map[f] ELSE DEFAULTS[f]

\* C21 as stated: loadSettings returns exactly the defaults when the stored
\* value is missing or cannot be parsed; for a stored record, each missing
\* field takes its default and each stored field keeps its stored value.
C21_EveryStoredFieldKept ==
    /\ FallsBackToDefaults
    /\ StoredRecord => \A f \in DOMAIN DEFAULTS \cup DOMAIN prefs.map : FilledOrKept(f)

\* C21 as amended: as stated, except that a stored legacy theme is returned as
\* a current theme.
C21_StoredFieldsKeptButLegacyTheme ==
    /\ FallsBackToDefaults
    /\ StoredRecord =>
          /\ DOMAIN loadSettings(prefs) = DOMAIN DEFAULTS \cup DOMAIN prefs.map
          /\ \A f \in (DOMAIN DEFAULTS \cup DOMAIN prefs.map) \ {"theme"} : FilledOrKept(f)
          /\ IF "theme" \in DOMAIN prefs.map /\ prefs.map.theme \in {"light", "sepia", "dark"}
             THEN loadSettings(prefs).theme \in {"white", "tan", "grey", "black"}
             ELSE FilledOrKept("theme")

\* initSettings has loaded a stored record with two fields: they are kept and
\* the three others filled
C21_Witness ==
    /\ prefs = Json([fontFamily |-> "serif", contentWidth |-> "wide"])
    /\ last.ev = "initSettings"
    /\ last.ret =
          [theme |-> "white", fontFamily |-> "serif", fontSize |-> 2, lineHeight |-> 1,
           contentWidth |-> "wide"]

\* initSettings has loaded unparseable text
C21_WitnessUnparseable ==
    prefs = Corrupt /\ last.ev = "initSettings" /\ last.ret = DEFAULTS

\* the current value of a legacy theme label
CurrentOf(legacy) ==
    CASE legacy = "light" -> "white"
      [] legacy = "sepia" -> "tan"
      [] legacy = "dark" -> "black"

\* C22: loading a stored record whose theme is a legacy label yields the
\* current value (light -> white, sepia -> tan, dark -> black); the other
\* fields of the record are returned as stored.
C22_LegacyThemeMigrated ==
    (StoredRecord /\ "theme" \in DOMAIN prefs.map /\ prefs.map.theme \in {"light", "sepia", "dark"}) =>
        /\ loadSettings(prefs).theme = CurrentOf(prefs.map.theme)
        /\ \A f \in DOMAIN prefs.map \ {"theme"} : loadSettings(prefs)[f] = prefs.map[f]

\* initSettings has loaded a full record with the legacy theme sepia
C22_Witness ==
    /\ prefs = Json([theme |-> "sepia", fontFamily |-> "dyslexic", fontSize |-> 3,
                     lineHeight |-> 0, contentWidth |-> "narrow"])
    /\ last.ev = "initSettings"
    /\ last.ret = [theme |-> "tan", fontFamily |-> "dyslexic", fontSize |-> 3,
                   lineHeight |-> 0, contentWidth |-> "narrow"]
    /\ root.dataTheme = <<"tan">>

\* the ordinal fields of a settings record are within their ranges
OrdinalsInRange(settings) ==
    settings.fontSize \in 0..4 /\ settings.lineHeight \in 0..2

\* C23: for any stored content, the record loadSettings returns and every
\* record cycleTheme or adjustFontSize saves has its font-size level in 0..4
\* and its line-height level in 0..2.
C23_OrdinalsAlwaysInRange ==
    /\ OrdinalsInRange(loadSettings(prefs))
    /\ last.ev \in {"cycleTheme", "adjustFontSize"} => OrdinalsInRange(last.ret)

\* cycleTheme has saved and applied a record whose line-height level is 7:
\* no entry of LINE_HEIGHTS corresponds to it
C23_OutOfRangeWritten ==
    /\ last.ev = "cycleTheme"
    /\ last.ret.lineHeight = 7
    /\ prefs = Json(last.ret)
    /\ root.style.lineHeight = "undefined"

\* what does hold: adjustFontSize saves a font-size level in 0..4 whatever level
\* was stored
C23_AdjustedFontSizeInRange ==
    last.ev = "adjustFontSize" => last.ret.fontSize \in 0..4

CurrentThemes == {"white", "tan", "grey", "black"}

\* C24: for any stored theme string (legacy, unknown or current) the record
\* loadSettings returns has a theme among white, tan, grey, black.
C24_ThemeAlwaysCurrent ==
    loadSettings(prefs).theme \in CurrentThemes

\* adjustFontSize has loaded the unknown theme purple, saved it and set it as
\* the data-theme of the root element
C24_UnknownThemeKept ==
    /\ last.ev = "adjustFontSize"
    /\ last.ret.theme = "purple"
    /\ prefs = Json(last.ret)
    /\ root.dataTheme = <<"purple">>

\* what does hold: a stored theme that is current or legacy, or no stored
\* theme, is loaded as a current theme
C24_KnownThemesCurrent ==
    (StoredRecord /\ "theme" \in DOMAIN prefs.map /\ prefs.map.theme = "purple")
        \/ loadSettings(prefs).theme \in CurrentThemes

\* level + delta clamped into 0..4
Clamped(level, delta) ==
    IF level + delta < 0 THEN 0 ELSE IF level + delta > 4 THEN 4 ELSE level + delta

\* the records loaded before and after a step agree on every field but f
SameSettingsBut(f) ==
    /\ DOMAIN loadSettings(prefs') = DOMAIN loadSettings(prefs)
    /\ \A g \in DOMAIN loadSettings(prefs) \ {f} : loadSettings(prefs')[g] = loadSettings(prefs)[g]

\* C25: adjustFontSize(delta) moves the persisted font-size level to
\* max(0, min(4, level + delta)) for every delta and every starting level in
\* 0..4, and changes no other field of the record.
C25_AdjustFontSizeClamps ==
    [][(last'.ev = "adjustFontSize" /\ loadSettings(prefs).fontSize \in 0..4) =>
          /\ loadSettings(prefs').fontSize = Clamped(loadSettings(prefs).fontSize, last'.arg)
          /\ last'.ret = loadSettings(prefs')
          /\ SameSettingsBut("fontSize")]_vars

\* adjustFontSize(-10) has saved level 0 in a record that is otherwise the defaults
C25_Witness ==
    /\ last.ev = "adjustFontSize" /\ last.arg = -10
    /\ prefs = Json([theme |-> "white", fontFamily |-> "sans", fontSize |-> 0,
                     lineHeight |-> 1, contentWidth |-> "medium"])

\* adjustFontSize(10) has saved level 4
C25_WitnessUpper ==
    /\ last.ev = "adjustFontSize" /\ last.arg = 10
    /\ loadSettings(prefs).fontSize = 4

\* the theme that follows a theme in the cycle
NextInCycle(theme) ==
    CASE theme = "white" -> "tan"
      [] theme = "tan" -> "grey"
      [] theme = "grey" -> "black"
      [] theme = "black" -> "white"

\* the stored item after cycleTheme() on a stored item
AfterCycleTheme(st) == Json(cycleTheme(st))

\* a call of cycleTheme yields one of the four themes, the next one of the
\* cycle when the loaded theme was one of them, and changes no other field
CycleThemeStep ==
    last'.ev = "cycleTheme" =>
        /\ loadSettings(prefs').theme \in CurrentThemes
        /\ loadSettings(prefs).theme \in CurrentThemes =>
              loadSettings(prefs').theme = NextInCycle(loadSettings(prefs).theme)
        /\ last'.ret = loadSettings(prefs')
        /\ SameSettingsBut("theme")

\* four consecutive calls of cycleTheme return to the record they started from
FourCallsReturn ==
    loadSettings(prefs).theme \in CurrentThemes =>
        loadSettings(AfterCycleTheme(AfterCycleTheme(AfterCycleTheme(AfterCycleTheme(prefs)))))
            = loadSettings(prefs)

\* C26: cycleTheme advances the persisted theme through the cycle white -> tan
\* -> grey -> black -> white: from each of the four themes it yields the next
\* one, four consecutive calls return to the starting theme, the result is
\* always one of the four themes, also from an unknown stored theme, and no
\* other field of the record changes.
C26_CycleThemeCycles ==
    []FourCallsReturn /\ [][CycleThemeStep]_vars

\* cycleTheme has wrapped from black to white and removed the marker
C26_Witness ==
    /\ last.ev = "cycleTheme"
    /\ last.arg.theme = "black"
    /\ last.ret.theme = "white"
    /\ loadSettings(prefs).theme = "white"

\* cycleTheme has replaced the unknown theme purple by white
C26_WitnessUnknown ==
    /\ last.ev = "cycleTheme"
    /\ last.arg.theme = "purple"
    /\ loadSettings(prefs).theme = "white"

\* the root element shows the record loadSettings returns: the marker is absent
\* exactly for white and is the theme otherwise, the style variables are the
\* resolved values
AppliedMatchesPersisted ==
    LET settings == loadSettings(prefs)
    IN  /\ root.dataTheme = <<>> <=> settings.theme = "white"
        /\ root.dataTheme # <<>> => root.dataTheme = <<settings.theme>>
        /\ root.style.family = Lookup(FONT_FAMILIES, settings.fontFamily)
        /\ root.style.size = At(FONT_SIZES, settings.fontSize)
        /\ root.style.lineHeight = At(LINE_HEIGHTS, settings.lineHeight)
        /\ root.style.maxWidth = Lookup(MAX_WIDTHS, settings.contentWidth)

\* a step that switches a marked root element back to white removes the marker
BackToWhiteRemovesMarker ==
    (root.dataTheme # <<>> /\ last'.ev # "initSettings" /\ last'.ret.theme = "white") =>
        root'.dataTheme = <<>>

\* C27: saveSettings persists and applies in one step: after any sequence of
\* saveSettings, cycleTheme and adjustFontSize calls loadSettings returns the
\* record last saved and the applied style matches it; the data-theme marker is
\* absent exactly when the persisted theme is white, and switching back to
\* white removes it.
C27_AppliedMatchesPersisted ==
    /\ [](last.ev \in {"saveSettings", "cycleTheme", "adjustFontSize"} =>
             loadSettings(prefs) = last.ret /\ AppliedMatchesPersisted)
    /\ [][BackToWhiteRemovesMarker]_vars

\* the panel has saved white over an applied grey record: the marker is gone
\* and the style variables are those of the saved record
C27_Witness ==
    /\ last.ev = "saveSettings"
    /\ last.ret = [theme |-> "white", fontFamily |-> "serif", fontSize |-> 4,
                   lineHeight |-> 0, contentWidth |-> "wide"]
    /\ prefs = Json(last.ret)
    /\ root = [dataTheme |-> <<>>,
               style |-> [family |-> "Georgia, 'Times New Roman', serif", size |-> "22px",
                          lineHeight |-> "1.5", maxWidth |-> "80ch"]]

\* cycleTheme has saved tan: the marker is tan
C27_WitnessMarked ==
    /\ last.ev = "cycleTheme"
    /\ loadSettings(prefs).theme = "tan"
    /\ root.dataTheme = <<"tan">>

(***************************************************************************)
(* Claims about the annotation store.                                      *)
(***************************************************************************)

\* the places of the stored records: document and index in its list
Places(st) ==
    UNION {{<<slug, i>> : i \in 1..Len(getStore(st)[slug])} : slug \in DOMAIN getStore(st)}

RecordAt(st, p) == getStore(st)[p[1]][p[2]]

\* C28: annotation identifiers are unique within the whole store: after any
\* sequence of addAnnotation and removeAnnotation calls no two stored records,
\* in the same or in different documents, have the same id, and every stored id
\* is one that randomUUID has returned.
C28_IdsUnique ==
    /\ \A p, q \in Places(annStore) :
          p # q => RecordAt(annStore, p).id # RecordAt(annStore, q).id
    /\ \A p \in Places(annStore) : RecordAt(annStore, p).id \in 1..uuids

\* three records were added and the second removed: the two left, in
\* different documents, have the ids 1 and 3
C28_Witness ==
    /\ uuids = 3
    /\ Len(getAnnotations(annStore, "a")) = 1 /\ getAnnotations(annStore, "a")[1].id = 1
    /\ Len(getAnnotations(annStore, "b")) = 1 /\ getAnnotations(annStore, "b")[1].id = 3

\* a step that is a call of addAnnotation
AddAnnotationStep == last'.ev = "addAnnotation" /\ uuids' = uuids + 1

\* the lists of the documents other than slug are the same before and after
OtherListsUnchanged(slug) ==
    /\ DOMAIN getStore(annStore') \ {slug} = DOMAIN getStore(annStore) \ {slug}
    /\ \A other \in DOMAIN getStore(annStore) \ {slug} :
          getStore(annStore')[other] = getStore(annStore)[other]

\* C29: addAnnotation(slug, r) appends exactly one record to the end of the
\* list of slug (creating the list if absent), persists the store and returns
\* that record: it has the fields of r plus a new id and the time of the call,
\* and the lists of all other documents are unchanged.
C29_AddAppendsOne ==
    [][AddAnnotationStep =>
          LET slug == last'.arg[1]
              r == last'.arg[2]
              full == last'.ret
          IN  /\ annStore'.kind = "json"
              /\ slug \in DOMAIN getStore(annStore')
              /\ getAnnotations(annStore', slug) =
                    Append(getAnnotations(annStore, slug), full)
              /\ OtherListsUnchanged(slug)
              /\ DOMAIN full = DOMAIN r \cup {"id", "createdAt"}
              /\ \A f \in DOMAIN r : full[f] = r[f]
              /\ \A p \in Places(annStore) : RecordAt(annStore, p).id # full.id
              /\ full.createdAt = now]_vars

\* a second record has been appended to the list of a while b has a list too
C29_Witness ==
    /\ last.ev = "addAnnotation"
    /\ last.arg[1] = "a"
    /\ Len(getAnnotations(annStore, "a")) = 2
    /\ getAnnotations(annStore, "a")[2] = last.ret
    /\ last.ret.text = "y" /\ last.ret.color = "pink" /\ last.ret.essaySlug = "a"
    /\ Len(getAnnotations(annStore, "b")) = 1

\* a step that is a call of removeAnnotation
RemoveAnnotationStep == last'.ev = "removeAnnotation" /\ now' = now /\ uuids' = uuids

\* no document of the stored map has an empty list
NoEmptyList ==
    \A slug \in DOMAIN getStore(annStore) : Len(getStore(annStore)[slug]) > 0

\* what a call removeAnnotation(slug, id) does to the stored map
RemovesExactly ==
    LET slug == last'.arg[1]
        id == last'.arg[2]
        before == getAnnotations(annStore, slug)
        rest == SelectSeq(before, LAMBDA a : a.id # id)
    IN  /\ getAnnotations(annStore', slug) = rest
        /\ slug \in DOMAIN getStore(annStore') <=> rest # <<>>
        /\ OtherListsUnchanged(slug)
        /\ (\A i \in 1..Len(before) : before[i].id # id) =>
              getStore(annStore') = getStore(annStore)

\* C30: removeAnnotation(slug, id) removes exactly the records of slug with
\* that id, keeps the order of the rest and deletes the entry of slug when its
\* list becomes empty, so that no document of the persisted store maps to an
\* empty list; with an unknown slug, or an id not in the list of slug (even
\* one stored under another document), every list is unchanged.
C30_RemoveFiltersAndPrunes ==
    []NoEmptyList /\ [][RemoveAnnotationStep => RemovesExactly]_vars

\* the only record of a has been removed: a has no entry, b keeps its list
C30_Witness ==
    /\ last.ev = "removeAnnotation" /\ last.arg = <<"a", 1>>
    /\ annStore.kind = "json"
    /\ DOMAIN getStore(annStore) = {"b"}
    /\ Len(getStore(annStore)["b"]) = 2
    /\ getStore(annStore)["b"][1].id = 2 /\ getStore(annStore)["b"][2].id = 3

\* removing from a an id stored under b has changed nothing
C30_WitnessOtherDocument ==
    /\ last.ev = "removeAnnotation" /\ last.arg = <<"a", 2>>
    /\ Len(getAnnotations(annStore, "a")) = 2
    /\ getAnnotations(annStore, "a")[1].id = 1 /\ getAnnotations(annStore, "a")[2].id = 3
    /\ Len(getAnnotations(annStore, "b")) = 1 /\ getAnnotations(annStore, "b")[1].id = 2

\* the middle record of three has been removed: the order of the rest is kept
C30_WitnessOrder ==
    /\ last.ev = "removeAnnotation" /\ last.arg = <<"a", 2>>
    /\ Len(getAnnotations(annStore, "a")) = 2
    /\ getAnnotations(annStore, "a")[1].id = 1 /\ getAnnotations(annStore, "a")[2].id = 3
    /\ "b" \notin DOMAIN getStore(annStore)

(***************************************************************************)
(* Claims about listeners, clean-up and stale popovers.                    *)
(***************************************************************************)

NoPopoverOpen == activeTooltip = Null /\ activeSheet = Null

(* C33: the document-level click and keydown listeners are attached only   *)
(* while a popover is open: in every reachable state in which no popover   *)
(* is open, neither listener is attached.                                  *)
C33_ListenersOnlyWhileOpen ==
    NoPopoverOpen => ~docClick /\ ~docKeydown

(* C33, the case that fails: no popover is open, no attach timer is        *)
(* pending any more, and both listeners are attached to the document.      *)
C33_StaleListeners ==
    NoPopoverOpen /\ attachTimers = 0 /\ docClick /\ docKeydown

(* C33, the part that holds: a step that closes the open popover leaves    *)
(* no listener attached.                                                   *)
C33_RemovedOnDismiss ==
    [][(~NoPopoverOpen /\ NoPopoverOpen') => ~docClick' /\ ~docKeydown']_vars

HandlesAndListenersKept ==
    /\ activeTooltip' = activeTooltip
    /\ activeSheet' = activeSheet
    /\ backdrop' = backdrop
    /\ docClick' = docClick
    /\ docKeydown' = docKeydown
    /\ body' = body

(* C37: an event delivered to a popover that was already dismissed but is  *)
(* still in the document cannot affect the popover that is open now: a     *)
(* click on the old backdrop leaves the open tooltip or sheet open, with   *)
(* its handles and listeners intact.                                       *)
C37_StaleClickIgnored ==
    [][(/\ last'.ev = "clickBackdrop"
        /\ last'.el # backdrop
        /\ ~NoPopoverOpen) => HandlesAndListenersKept]_vars

(* C37, the same for a touch drag that ends more than 80 px down on a      *)
(* sheet that is no longer the open one.                                   *)
C37_StaleDragIgnored ==
    [][(/\ last'.ev = "touchend"
        /\ last'.el # activeSheet
        /\ last'.dy > DragThreshold
        /\ ~NoPopoverOpen) => HandlesAndListenersKept]_vars

(* C37, the case that fails: the click on the backdrop of an earlier sheet *)
(* has closed the sheet that was opened after it.                          *)
C37_ClosedByStaleClick ==
    /\ last.ev = "clickBackdrop"
    /\ NoPopoverOpen
    /\ \E el \in body : el.kind = "sheet" /\ el.id > last.el.id

(***************************************************************************)
(* The notes region after both passes.                                     *)
(***************************************************************************)
\* the controls inside the text-xs blocks of p
ControlsInNotes(p) ==
    ConcatAll([b \in 1..Len(NotesSections(p)) |-> Controls(NotesSections(p)[b])])

\* the linked-style citations of defined numbers inside the text-xs blocks of p
LinkedInNotes(p) ==
    ConcatAll([b \in 1..Len(NotesSections(p)) |->
                  SelectSeq(Descendants(NotesSections(p)[b]), IsLinkedCitation)])

(* C38: after initFootnotes no interactive control lies inside the notes   *)
(* region: a literal [N] or a link with href '#f..' whose text is a        *)
(* defined number is never converted there, so the notes blocks are as     *)
(* they were when they were parsed.                                        *)
C38_NotesRegionUntouched ==
    Discovered =>
        /\ ControlsInNotes(prose) = <<>>
        /\ NotesSections(prose) = NotesSections(dom0)

\* the [N] markers of the text nodes under kids that are not inside a control
RECURSIVE LiteralMarkers(_)
LiteralMarkers(kids) ==
    ConcatAll([i \in 1..Len(kids) |->
        LET k == kids[i]
        IN  IF IsText(k) THEN MarkerNums(k.text)
            ELSE IF IsControl(k) THEN <<>>
            ELSE LiteralMarkers(k.kids)])

NotesMarkerNums(p) ==
    ConcatAll([b \in 1..Len(NotesSections(p)) |-> LiteralMarkers(NotesSections(p)[b].kids)])

(* C38, amended: after initFootnotes the literal [N] markers of the notes  *)
(* region are all still literal text; the controls inside the notes region *)
(* are exactly the links with href '#f..' and a defined number that the    *)
(* region held, in the same order, which the linked pass converts there as *)
(* it does anywhere else; a notes region without such a link is left as it *)
(* was.                                                                    *)
C38_OnlyLinksConvertInNotes ==
    Discovered =>
        /\ NotesMarkerNums(prose) = NotesMarkerNums(dom0)
        /\ [i \in 1..Len(ControlsInNotes(prose)) |-> ControlsInNotes(prose)[i].fn]
              = [i \in 1..Len(LinkedInNotes(dom0)) |-> LinkNum(LinkedInNotes(dom0)[i])]
        /\ LinkedInNotes(dom0) = <<>> => NotesSections(prose) = NotesSections(dom0)

\* both passes have run on a notes region that holds a defined literal marker
\* and a link to a defined number
C38_Witness ==
    /\ Discovered
    /\ ControlsInNotes(prose) # <<>>
    /\ SelectSeq(NotesMarkerNums(prose), IsDefined) # <<>>

(***************************************************************************)
(* Clean-up after a dismissal.                                             *)
(***************************************************************************)
\* the popover elements in the document that are no longer the open popover
Exiting == body \ (Present(activeTooltip) \cup Present(activeSheet) \cup Present(backdrop))

\* a removal trigger has run: it removes its own element and nothing else,
\* leaves the handles and the listeners alone, and changes nothing at all in
\* the document when its element is already gone
TriggerRemovesOnlyItsElement ==
    last'.ev \in {"removeTimer", "transitionend"} =>
        /\ last'.el \notin Present(activeTooltip) \cup Present(activeSheet) \cup Present(backdrop)
        /\ body' = body \ {last'.el}
        /\ last'.key = "detached" => body' = body /\ style' = style /\ touch' = touch
        /\ activeTooltip' = activeTooltip /\ activeSheet' = activeSheet
        /\ backdrop' = backdrop
        /\ docClick' = docClick /\ docKeydown' = docKeydown

(* C34: dismissal always ends in clean-up.  Every dismissed sheet and      *)
(* backdrop is eventually removed from the document, by whichever of       *)
(* transitionend and the 300 ms timer comes first, also when no transition *)
(* ever ends; a dismissed tooltip is removed at once (no tooltip other     *)
(* than the open one is in the document); the later of the two triggers    *)
(* changes neither the document nor a popover opened since.                *)
C34_DismissalEndsInCleanup ==
    /\ \A id \in 1..MaxOpens :
          (\E el \in Exiting : el.id = id) ~> ~(\E el \in body : el.id = id)
    /\ [](\A el \in body : el.kind = "tooltip" => el = activeTooltip)
    /\ [](Exiting \subseteq removeTimers)
    /\ [][TriggerRemovesOnlyItsElement]_vars

\* the 300 ms timer of a sheet has run after transitionend had removed the
\* sheet, while a newer popover is open
C34_Witness ==
    /\ last.ev = "removeTimer"
    /\ last.key = "detached"
    /\ last.el.kind = "sheet"
    /\ \E el \in body : el.id > last.el.id /\ el \in {activeTooltip, activeSheet}

\* the 300 ms timer has removed a sheet whose transition never ended
C34_WitnessFallback ==
    /\ last.ev = "removeTimer"
    /\ last.key = "attached"
    /\ last.el.kind = "sheet"
    /\ last.el \notin body

(***************************************************************************)
(* Claims about scroll tracking as the event loop runs it.                 *)
(***************************************************************************)
ScrollStep == tracker'.scrollY # tracker.scrollY
FrameStep == tracker'.pending < tracker.pending

(* C40: scroll tracking never stalls.  After every frame callback, whether *)
(* or not its storage writes succeed, the pending flag (ticking) is clear, *)
(* so every scroll event is eventually followed by a frame callback that   *)
(* attempts to persist the offset.                                         *)
C40_NeverStalls ==
    /\ [][FrameStep => ~tracker'.ticking]_vars
    /\ (last.ev = "scroll") ~> (last.ev = "frame")

(* C40, the case that fails: a frame callback was ended by an exception    *)
(* and left the flag set with no frame requested.                          *)
C40_Stalled ==
    /\ last.ev = "frame"
    /\ last.threw
    /\ tracker.ticking
    /\ tracker.pending = 0

(* C35: scroll-driven persistence is coalesced to one update per frame: at *)
(* most one frame callback is pending; a scroll event that arrives while   *)
(* one is pending requests nothing; a frame callback calls                 *)
(* saveScrollPosition once, with the offset current at frame time, and     *)
(* markAsRead at most once; after the callback has run the next scroll     *)
(* event requests a new frame.                                             *)
C35_OneUpdatePerFrame ==
    /\ [](tracker.pending <= 1)
    /\ [][ScrollStep /\ tracker.pending > 0 => tracker'.pending = tracker.pending]_vars
    /\ [][FrameStep =>
            /\ last'.saves = 1
            /\ last'.marks <= 1
            /\ last'.arg = tracker.scrollY
            /\ ~last'.threw => getScrollPosition(store', PageSlug) = tracker.scrollY]_vars
    /\ [][ScrollStep /\ tracker.pending = 0 => tracker'.pending = 1]_vars

(* C35, the case that fails: a scroll event arrived with no frame pending, *)
(* requested none, and the offset it moved to is not the stored one.       *)
C35_ScrollRequestedNothing ==
    /\ last.ev = "scroll"
    /\ tracker.pending = 0
    /\ getScrollPosition(store, PageSlug) # tracker.scrollY

(***************************************************************************)
(* Claims about persisted content that is no map.                          *)
(***************************************************************************)
LoadOps == {"getHistory", "getStore"}
StoreOps ==
    {"isRead", "getScrollPosition", "getStats", "getAnnotations", "markAsRead",
     "saveScrollPosition", "addAnnotation", "removeAnnotation"}

(* C32: storage read or parse failures are non-fatal for the reading       *)
(* history and the annotation store: for persisted content that is         *)
(* missing, is no valid JSON, or is valid JSON that is no map, getHistory  *)
(* and getStore give an empty store, and the eight store operations        *)
(* complete without raising.                                               *)
C32_LoadFailuresNonFatal ==
    /\ last.ev \in LoadOps /\ last.from # "json" => last.ret = Json(EmptyMap)
    /\ last.ev \in StoreOps => ~last.raised

(* C32, the part that holds: for an item that is missing or is not valid   *)
(* JSON the load gives an empty store and no operation raises.             *)
C32_MissingOrUnparseable ==
    last.ev \in LoadOps \cup StoreOps /\ last.from \in {"missing", "text"} =>
        /\ ~last.raised
        /\ last.ev \in LoadOps => last.ret = Json(EmptyMap)

(* C32, the case that fails: the item holds the JSON text null and isRead  *)
(* has raised.                                                             *)
C32_RaisedOnNull ==
    last.ev = "isRead" /\ last.from = "null" /\ last.raised

(***************************************************************************)
(* Claims about the export of the annotations.                             *)
(***************************************************************************)
(* C31: the export in json mode round-trips.  For every store reachable by *)
(* add and remove calls, parsing the string exportAnnotations('json')      *)
(* returns gives exactly the store getAllAnnotations returns: the same     *)
(* documents, the same records in the same order; and exporting does not   *)
(* modify the store.                                                       *)
C31_JsonExportRoundTrips ==
    /\ [](parse(exportAnnotations(annStore, "json")) = StoreValue(getAllAnnotations(annStore)))
    /\ [](last.ev = "exportAnnotations" /\ last.arg = "json" =>
             parse(last.ret) = StoreValue(getAllAnnotations(annStore)))
    /\ [][last'.ev = "exportAnnotations" => annStore' = annStore]_vars

\* a store of two documents, one with two records, has been exported after a
\* removal; one of its texts holds a quote, a backslash and a line break
C31_Witness ==
    /\ last.ev = "exportAnnotations"
    /\ last.arg = "json"
    /\ uuids = MaxUuids
    /\ DOMAIN getStore(annStore) = {"a", "b"}
    /\ \E slug \in AnnSlugs :
          /\ Len(getAnnotations(annStore, slug)) = 1
          /\ Quote \in {getAnnotations(annStore, slug)[1].text[i] :
                           i \in 1..Len(getAnnotations(annStore, slug)[1].text)}

(***************************************************************************)
(* Claims about two tabs.                                                  *)
(***************************************************************************)
\* the item of the key the two calls use, as it is persisted now
Persisted == Item(tabs.ns)

BothDone == \A t \in Tabs : tabs.call[t].pc = "done"

\* the item after the call of tab t, run alone on the item x
Alone(t, x) ==
    IF Writes(tabs.call[t].call, x)
    THEN Written(tabs.call[t].call, x, tabs.call[t].id, now)
    ELSE x

LastWriter == tabs.writes[Len(tabs.writes)]
OtherTab(t) == CHOOSE u \in Tabs : u # t

(* C36: last writer wins across tabs.  When two tabs have each run a store  *)
(* operation on the same key and their steps interleave, the persisted     *)
(* item is exactly the complete map the tab that wrote last passed to      *)
(* setItem: a well-formed map, either that tab's call run on the item as   *)
(* it was before both calls (the other tab's update is lost) or run after  *)
(* the other tab's call (nothing is lost), and never anything else.        *)
C36_LastWriterWins ==
    BothDone /\ tabs.writes # <<>> =>
        /\ Persisted.kind = "json"
        /\ Persisted = Written(tabs.call[LastWriter].call, tabs.call[LastWriter].snapshot,
                               tabs.call[LastWriter].id, now)
        /\ Persisted \in {Alone(LastWriter, tabs.initial),
                          Alone(LastWriter, Alone(OtherTab(LastWriter), tabs.initial))}

\* both tabs have written, and the update of the tab that wrote first is lost
C36_Witness ==
    /\ BothDone
    /\ Len(tabs.writes) = 2
    /\ Persisted = Alone(LastWriter, tabs.initial)
    /\ Persisted # Alone(LastWriter, Alone(OtherTab(LastWriter), tabs.initial))

(***************************************************************************)
(* Claims about what a store operation leaves alone.                       *)
(***************************************************************************)
\* the records of all documents but slug are the same before and after
OtherRecordsUnchanged(slug) ==
    /\ DOMAIN getHistory(store') \ {slug} = DOMAIN getHistory(store) \ {slug}
    /\ \A other \in DOMAIN getHistory(store) \ {slug} :
          getHistory(store')[other] = getHistory(store)[other]

HistoryStep == last'.ev \in {"markAsRead", "saveScrollPosition"}
AnnotationStep == last'.ev \in {"addAnnotation", "removeAnnotation"}
SettingsStep == last'.ev \in {"cycleTheme", "adjustFontSize", "initSettings"}

(* C39: a store operation on one document leaves every other document's    *)
(* entry unchanged: markAsRead(id, ..) and saveScrollPosition(id, ..)      *)
(* change only the record of id in the reading history, addAnnotation(id,  *)
(* ..) and removeAnnotation(id, ..) only the list of id in the annotation  *)
(* store; and no operation of one namespace (settings, history,            *)
(* annotations; three different storage keys) changes another namespace.   *)
C39_OnlyOwnDocumentAndNamespace ==
    /\ [](Cardinality(StorageKeys) = 3)
    /\ [][HistoryStep =>
            /\ OtherRecordsUnchanged(last'.slug)
            /\ annStore' = annStore /\ prefs' = prefs /\ root' = root]_vars
    /\ [][AnnotationStep =>
            /\ OtherListsUnchanged(last'.arg[1])
            /\ store' = store /\ prefs' = prefs /\ root' = root]_vars
    /\ [][SettingsStep => store' = store /\ annStore' = annStore]_vars

\* a call on document a has run while the history, the annotations and the
\* settings all held entries, document b among them
C39_Witness ==
    /\ last.ev \in {"markAsRead", "saveScrollPosition"}
    /\ last.slug = "a"
    /\ "b" \in DOMAIN getHistory(store)
    /\ "b" \in DOMAIN getStore(annStore)
    /\ prefs # Missing

\* the same for a call of the annotation store
C39_WitnessAnnotations ==
    /\ last.ev = "removeAnnotation"
    /\ last.arg[1] = "a"
    /\ "b" \in DOMAIN getHistory(store)
    /\ "b" \in DOMAIN getStore(annStore)
    /\ prefs # Missing

=============================================================================
